---- MODULE Spec2Model ----
(***************************************************************************)
(* Model of the conversation orchestrator of the scam honeypot backend:    *)
(* AgenticController (backend/app/pipeline/agent.py) with its per-session  *)
(* memory, termination handling, safety filter, agent-local intelligence   *)
(* extraction and the final callback to the evaluation endpoint.           *)
(*                                                                         *)
(* Text is a sequence of one-character strings, so that the regular        *)
(* expressions and substring tests of the code are computed, not assumed.  *)
(* Confidences are in hundredths (0.9 is 90).                              *)
(***************************************************************************)
EXTENDS Integers, Sequences, FiniteSets, TLC

(***************************************************************************)
(* Characters and the character classes of Python's re module for str      *)
(* patterns.  The alphabet is Latin-1, the characters with code points 0   *)
(* to 255; on it \d matches the ten ASCII digits only.                     *)
(***************************************************************************)
\* the characters str.lower() changes and, at the same position, what it
\* makes of them: A to Z, and the capitals from 0xc0 to 0xde (all but the
\* multiplication sign)
LowerLetters ==
    <<"a","b","c","d","e","f","g","h","i","j","k","l","m",
      "n","o","p","q","r","s","t","u","v","w","x","y","z",
      "à","á","â","ã","ä","å","æ","ç","è","é","ê","ë","ì","í","î",
      "ï","ð","ñ","ò","ó","ô","õ","ö","ø","ù","ú","û","ü","ý","þ">>
UpperLetters ==
    <<"A","B","C","D","E","F","G","H","I","J","K","L","M",
      "N","O","P","Q","R","S","T","U","V","W","X","Y","Z",
      "À","Á","Â","Ã","Ä","Å","Æ","Ç","È","É","Ê","Ë","Ì","Í","Î",
      "Ï","Ð","Ñ","Ò","Ó","Ô","Õ","Ö","Ø","Ù","Ú","Û","Ü","Ý","Þ">>
Digits == {"0","1","2","3","4","5","6","7","8","9"}

Range(f) == {f[i] : i \in DOMAIN f}

UpperSet == Range(UpperLetters)
\* what \w matches in a str pattern: the letters, the digits, the underscore,
\* and of the other characters from 0x80 to 0xff the ordinal indicators, the
\* micro sign, the superscript digits, the vulgar fractions, sharp s and y
\* with diaeresis
WordChars ==
    Range(LowerLetters) \cup UpperSet \cup Digits
        \cup {"_", "ª", "µ", "º", "²", "³", "¹", "¼", "½", "¾", "ß", "ÿ"}
\* the characters for which str.isspace() holds: space, \t, \n, \r, \f, the
\* vertical tab (0x0b), the separators 0x1c to 0x1f, the next-line control
\* (0x85) and the no-break space (0xa0)
SpaceChars == {" ", "\t", "\n", "\r", "\f", "", "", "", "", "", "", " "}

\* \d
IsDigit(c) == c \in Digits
\* \w
IsWord(c) == c \in WordChars
\* \s, and the characters str.strip() removes
IsSpace(c) == c \in SpaceChars

\* str.lower() on one character
LowerChar(c) ==
    IF c \in UpperSet
    THEN LowerLetters[CHOOSE i \in DOMAIN UpperLetters : UpperLetters[i] = c]
    ELSE c
\* str.lower()
Lower(t) == [i \in 1..Len(t) |-> LowerChar(t[i])]

\* t[a:b] of Python with 1-based inclusive a and exclusive b
Slice(t, a, b) == SubSeq(t, a, b - 1)

\* k in t (substring test)
Contains(t, k) ==
    \E i \in 0..(Len(t) - Len(k)) : \A j \in 1..Len(k) : t[i + j] = k[j]

\* t.startswith(k, i-1): k occurs in t at position i
HasPrefixAt(t, i, k) ==
    /\ i >= 1
    /\ i + Len(k) - 1 <= Len(t)
    /\ \A j \in 1..Len(k) : t[i + j - 1] = k[j]

RECURSIVE LStrip(_)
LStrip(t) == IF t # <<>> /\ IsSpace(Head(t)) THEN LStrip(Tail(t)) ELSE t
RECURSIVE RStrip(_)
RStrip(t) ==
    IF t # <<>> /\ IsSpace(t[Len(t)]) THEN RStrip(SubSeq(t, 1, Len(t) - 1)) ELSE t
\* str.strip()
Strip(t) == RStrip(LStrip(t))

\* not s or not s.strip()
IsBlank(t) == t = <<>> \/ Strip(t) = <<>>

\* the character at 1-based position i is a word character
WordAt(t, i) == i \in 1..Len(t) /\ IsWord(t[i])
\* \b holds between positions i-1 and i
Boundary(t, i) == WordAt(t, i - 1) # WordAt(t, i)

\* membership of a character in the character class named cls
InClass(cls, c) ==
    CASE cls = "digit"    -> IsDigit(c)
      [] cls = "word"     -> IsWord(c)
      [] cls = "upilocal" -> IsWord(c) \/ c \in {".", "-"}
      [] cls = "nonspace" -> ~IsSpace(c)
      [] cls = "space"    -> IsSpace(c)

\* first position at or after i whose character is not in cls (greedy run end)
RECURSIVE RunEnd(_, _, _)
RunEnd(t, i, cls) ==
    IF i \in 1..Len(t) /\ InClass(cls, t[i]) THEN RunEnd(t, i + 1, cls) ELSE i

(***************************************************************************)
(* Safety filter: SAFETY_PATTERNS is the ordered rule list.  Each pattern  *)
(* is \b(alt1|alt2|...)\b with re.IGNORECASE; an alternative is a sequence *)
(* of atoms: a lower-case literal character, "\\s*" or "'?".               *)
(***************************************************************************)
SAFETY_PATTERNS ==
  <<
    [pattern |-> <<
        <<"o","t","p">>,
        <<"o","n","e","\\s*","t","i","m","e","\\s*","p","a","s","s","w","o","r","d">>,
        <<"v","e","r","i","f","i","c","a","t","i","o","n","\\s*","c","o","d","e">>
      >>,
     fallback |->
      <<"I","'","m"," ","n","o","t"," ","s","u","r","e"," ","a","b","o","u","t"," ","t","h","a","t",
        "."," ","C","o","u","l","d"," ","y","o","u"," ","t","e","l","l"," ","m","e"," ","m","o","r",
        "e"," ","a","b","o","u","t"," ","y","o","u","r"," ","o","r","g","a","n","i","z","a","t","i",
        "o","n","?">>
    ],
    [pattern |-> <<
        <<"b","a","n","k","\\s*","a","c","c","o","u","n","t">>,
        <<"a","c","c","o","u","n","t","\\s*","n","u","m","b","e","r">>,
        <<"r","o","u","t","i","n","g","\\s*","n","u","m","b","e","r">>,
        <<"i","f","s","c">>
      >>,
     fallback |->
      <<"I"," ","d","o","n","'","t"," ","r","e","m","e","m","b","e","r"," ","t","h","a","t"," ","r",
        "i","g","h","t"," ","n","o","w","."," ","C","o","u","l","d"," ","y","o","u"," ","e","x","p",
        "l","a","i","n"," ","t","h","e"," ","p","r","o","c","e","s","s"," ","a","g","a","i","n","?">>
    ],
    [pattern |-> <<
        <<"p","a","s","s","w","o","r","d">>,
        <<"p","i","n">>,
        <<"p","a","s","s","c","o","d","e">>
      >>,
     fallback |->
      <<"I","'","m"," ","n","o","t"," ","c","o","m","f","o","r","t","a","b","l","e"," ","s","h","a",
        "r","i","n","g"," ","t","h","a","t","."," ","C","a","n"," ","y","o","u"," ","t","e","l","l",
        " ","m","e"," ","m","o","r","e"," ","a","b","o","u","t"," ","w","h","o"," ","y","o","u"," ",
        "a","r","e","?">>
    ],
    [pattern |-> <<
        <<"c","v","v">>,
        <<"c","v","c">>,
        <<"c","a","r","d","\\s*","n","u","m","b","e","r">>,
        <<"c","r","e","d","i","t","\\s*","c","a","r","d">>,
        <<"d","e","b","i","t","\\s*","c","a","r","d">>,
        <<"e","x","p","i","r","y">>,
        <<"e","x","p","i","r","a","t","i","o","n">>
      >>,
     fallback |->
      <<"I","'","m"," ","n","o","t"," ","c","o","m","f","o","r","t","a","b","l","e"," ","w","i","t",
        "h"," ","c","a","r","d"," ","d","e","t","a","i","l","s","."," ","C","o","u","l","d"," ","y",
        "o","u"," ","t","e","l","l"," ","m","e"," ","m","o","r","e"," ","a","b","o","u","t"," ","y",
        "o","u","r"," ","o","r","g","a","n","i","z","a","t","i","o","n","?">>
    ],
    [pattern |-> <<
        <<"s","s","n">>,
        <<"s","o","c","i","a","l","\\s*","s","e","c","u","r","i","t","y">>,
        <<"p","a","n">>,
        <<"a","a","d","h","a","a","r">>,
        <<"a","a","d","h","a","r">>,
        <<"i","d","\\s*","n","u","m","b","e","r">>,
        <<"p","a","s","s","p","o","r","t">>,
        <<"d","r","i","v","e","r","'?","s","\\s*","l","i","c","e","n","s","e">>
      >>,
     fallback |->
      <<"I"," ","d","o","n","'","t"," ","h","a","v","e"," ","t","h","o","s","e"," ","d","e","t","a",
        "i","l","s"," ","h","a","n","d","y","."," ","C","a","n"," ","y","o","u"," ","e","x","p","l",
        "a","i","n"," ","w","h","a","t"," ","t","h","i","s"," ","i","s"," ","f","o","r","?">>
    ],
    [pattern |-> <<
        <<"a","d","d","r","e","s","s">>,
        <<"h","o","m","e","\\s*","a","d","d","r","e","s","s">>,
        <<"m","a","i","l","i","n","g","\\s*","a","d","d","r","e","s","s">>,
        <<"r","e","s","i","d","e","n","t","i","a","l","\\s*","a","d","d","r","e","s","s">>
      >>,
     fallback |->
      <<"I","'","d"," ","r","a","t","h","e","r"," ","n","o","t"," ","s","h","a","r","e"," ","m","y",
        " ","a","d","d","r","e","s","s","."," ","C","o","u","l","d"," ","y","o","u"," ","t","e","l",
        "l"," ","m","e"," ","m","o","r","e"," ","a","b","o","u","t"," ","y","o","u","r"," ","c","o",
        "m","p","a","n","y","?">>
    ],
    [pattern |-> <<
        <<"e","m","a","i","l">>,
        <<"e","-","m","a","i","l">>
      >>,
     fallback |->
      <<"I","'","m"," ","n","o","t"," ","s","u","r","e"," ","a","b","o","u","t"," ","m","y"," ","e",
        "m","a","i","l"," ","r","i","g","h","t"," ","n","o","w","."," ","C","o","u","l","d"," ","y",
        "o","u"," ","e","x","p","l","a","i","n"," ","t","h","e"," ","p","r","o","c","e","s","s"," ",
        "a","g","a","i","n","?">>
    ],
    [pattern |-> <<
        <<"k","y","c">>,
        <<"i","d","e","n","t","i","t","y","\\s*","d","o","c","u","m","e","n","t">>,
        <<"i","d","\\s*","p","r","o","o","f">>,
        <<"v","e","r","i","f","i","c","a","t","i","o","n","\\s*","d","o","c","u","m","e","n","t">>
      >>,
     fallback |->
      <<"I","'","m"," ","n","o","t"," ","c","o","m","f","o","r","t","a","b","l","e"," ","s","h","a",
        "r","i","n","g"," ","d","o","c","u","m","e","n","t","s","."," ","C","a","n"," ","y","o","u",
        " ","t","e","l","l"," ","m","e"," ","m","o","r","e"," ","a","b","o","u","t"," ","y","o","u",
        "r"," ","o","r","g","a","n","i","z","a","t","i","o","n","?">>
    ]
  >>
NUMERIC_LEAK_FALLBACK ==
    <<"I"," ","d","o","n","'","t"," ","h","a","v","e"," ","t","h","o","s","e"," ","n","u","m","b",
      "e","r","s","."," ","C","o","u","l","d"," ","y","o","u"," ","e","x","p","l","a","i","n"," ",
      "t","h","e"," ","p","r","o","c","e","s","s"," ","a","g","a","i","n","?">>
CLOSING_RESPONSE ==
    <<"T","h","a","n","k"," ","y","o","u"," ","f","o","r"," ","c","a","l","l","i","n","g","."," ",
      "G","o","o","d","b","y","e",".">>
GENERATION_FALLBACK ==
    <<"I","'","m"," ","n","o","t"," ","s","u","r","e"," ","I"," ","u","n","d","e","r","s","t","a",
      "n","d","."," ","C","o","u","l","d"," ","y","o","u"," ","e","x","p","l","a","i","n"," ","t",
      "h","a","t"," ","a","g","a","i","n","?">>

\* end positions of the matches of atoms pat[k..] against t from position i
RECURSIVE AltEnds(_, _, _, _)
AltEnds(pat, k, t, i) ==
    IF k > Len(pat) THEN {i}
    ELSE IF pat[k] = "\\s*"
         THEN UNION {AltEnds(pat, k + 1, t, j) : j \in i..RunEnd(t, i, "space")}
    ELSE IF pat[k] = "'?"
         THEN AltEnds(pat, k + 1, t, i)
                \cup (IF i <= Len(t) /\ t[i] = "'"
                      THEN AltEnds(pat, k + 1, t, i + 1) ELSE {})
    ELSE IF i <= Len(t) /\ LowerChar(t[i]) = pat[k]
         THEN AltEnds(pat, k + 1, t, i + 1)
         ELSE {}

\* pattern.search(response) is not None, for a rule's pattern
PatternSearch(alts, t) ==
    \E i \in 1..(Len(t) + 1) :
        /\ Boundary(t, i)
        /\ \E a \in DOMAIN alts :
               \E j \in AltEnds(alts[a], 1, t, i) : Boundary(t, j)

\* end (exclusive) of the match of \b\d{lo,hi}\b starting at i, 0 if none
MatchDigits(t, i, lo, hi) ==
    LET e == RunEnd(t, i, "digit")
    IN  IF Boundary(t, i) /\ (e - i) \in lo..hi /\ Boundary(t, e) THEN e ELSE 0

\* NUMERIC_LEAK_PATTERN.search(response) is not None
NumericLeakSearch(t) == \E i \in 1..Len(t) : MatchDigits(t, i, 9, 19) > 0

\* variant: the last rule whose pattern matches decides
LastMatchingRule(t) ==
    IF \E r \in DOMAIN SAFETY_PATTERNS : PatternSearch(SAFETY_PATTERNS[r].pattern, t)
    THEN CHOOSE r \in DOMAIN SAFETY_PATTERNS :
            /\ PatternSearch(SAFETY_PATTERNS[r].pattern, t)
            /\ \A q \in (r + 1)..Len(SAFETY_PATTERNS) :
                   ~PatternSearch(SAFETY_PATTERNS[q].pattern, t)
    ELSE 0

\* index of the first rule whose pattern matches, 0 if none
FirstMatchingRule(t) ==
    IF \E r \in DOMAIN SAFETY_PATTERNS : PatternSearch(SAFETY_PATTERNS[r].pattern, t)
    THEN CHOOSE r \in DOMAIN SAFETY_PATTERNS :
            /\ PatternSearch(SAFETY_PATTERNS[r].pattern, t)
            /\ \A q \in 1..(r - 1) : ~PatternSearch(SAFETY_PATTERNS[q].pattern, t)
    ELSE 0

\* variant: the fallback is put in front of the response, which is kept
ApplySafetyFilterPrefixes(response) ==
    IF FirstMatchingRule(response) > 0
    THEN SAFETY_PATTERNS[FirstMatchingRule(response)].fallback \o <<" ">> \o response
    ELSE IF NumericLeakSearch(response) THEN NUMERIC_LEAK_FALLBACK
    ELSE response

ApplySafetyFilter(response) ==
    LET r == FirstMatchingRule(response)
    IN  IF r > 0 THEN SAFETY_PATTERNS[r].fallback
        ELSE IF NumericLeakSearch(response) THEN NUMERIC_LEAK_FALLBACK
        ELSE response

(***************************************************************************)
(* Agent-local intelligence extraction.                                    *)
(***************************************************************************)
ORG_KEYWORDS ==
    <<<<"b","a","n","k">>,
      <<"c","o","m","p","a","n","y">>,
      <<"l","i","m","i","t","e","d">>,
      <<"l","t","d">>,
      <<"p","v","t">>,
      <<"i","n","c">>,
      <<"c","o","r","p">>,
      <<"a","g","e","n","c","y">>,
      <<"d","e","p","a","r","t","m","e","n","t">>>>

\* EntityExtractor.BANK_CONTEXT_KEYWORDS
BANK_CONTEXT_KEYWORDS ==
    <<<<"a","c","c","o","u","n","t">>,
      <<"i","f","s","c">>,
      <<"b","a","n","k">>,
      <<"b","r","a","n","c","h">>,
      <<"t","r","a","n","s","f","e","r">>>>

\* default of the window parameter of EntityExtractor._validate_bank_account
BANK_CONTEXT_WINDOW == 40

\* the kinds of EXTRACTION_PATTERNS in the dict's iteration order
EXTRACTION_KINDS == <<"upi", "phone", "url">>

\* start of the subscriber number of a phone match at i: after the optional
\* group (\+91[\-\s]?)
PhoneNumberStart(t, i) ==
    IF HasPrefixAt(t, i, <<"+","9","1">>)
    THEN IF i + 3 <= Len(t) /\ (t[i + 3] = "-" \/ IsSpace(t[i + 3])) THEN i + 4 ELSE i + 3
    ELSE i

\* end (exclusive) of the match of EXTRACTION_PATTERNS[kind] starting exactly
\* at position i, 0 if there is none
MatchEnd(kind, t, i) ==
    CASE kind = "upi" ->
            \* \b[\w.\-]+@[\w]+\b
            LET a == RunEnd(t, i, "upilocal")
                b == RunEnd(t, a + 1, "word")
            IN  IF Boundary(t, i) /\ a > i /\ a <= Len(t) /\ t[a] = "@" /\ b > a + 1
                THEN b ELSE 0
      [] kind = "phone" ->
            \* \b(\+91[\-\s]?)?[6-9]\d{9}\b
            LET p == PhoneNumberStart(t, i)
            IN  IF /\ Boundary(t, i)
                   /\ p + 9 <= Len(t)
                   /\ t[p] \in {"6","7","8","9"}
                   /\ \A j \in (p + 1)..(p + 9) : IsDigit(t[j])
                   /\ Boundary(t, p + 10)
                THEN p + 10 ELSE 0
      [] kind = "url" ->
            \* https?://[^\s]+
            LET q == IF HasPrefixAt(t, i, <<"h","t","t","p","s",":","/","/">>) THEN i + 8
                     ELSE IF HasPrefixAt(t, i, <<"h","t","t","p",":","/","/">>) THEN i + 7
                     ELSE 0
                e == RunEnd(t, q, "nonspace")
            IN  IF q > 0 /\ e > q THEN e ELSE 0
      [] kind = "account" ->
            \* \b\d{9,18}\b
            MatchDigits(t, i, 9, 18)

\* pattern.finditer(t): the non-overlapping matches, leftmost first, as
\* <<start, end>> with end exclusive, scanning from position i
RECURSIVE FindIter(_, _, _)
FindIter(kind, t, i) ==
    IF i > Len(t) THEN <<>>
    ELSE LET e == MatchEnd(kind, t, i)
         IN  IF e > 0 THEN <<<<i, e>>>> \o FindIter(kind, t, e)
             ELSE FindIter(kind, t, i + 1)

\* what pattern.findall(t) returns for a match m: the whole match when the
\* pattern has no group, the text of group 1 (empty when the group did not
\* take part) for the phone pattern
FindAllValue(kind, t, m) ==
    IF kind = "phone" THEN Slice(t, m[1], PhoneNumberStart(t, m[1]))
    ELSE Slice(t, m[1], m[2])

\* list(dict.fromkeys(xs))
RECURSIVE Dedup(_)
Dedup(xs) ==
    IF xs = <<>> THEN <<>>
    ELSE LET rest == Dedup(SubSeq(xs, 1, Len(xs) - 1))
             x == xs[Len(xs)]
         IN  IF x \in Range(rest) THEN rest ELSE Append(rest, x)

Max(a, b) == IF a >= b THEN a ELSE b
Min(a, b) == IF a <= b THEN a ELSE b

\* EntityExtractor._validate_bank_account for the match m of context
ValidateBankAccount(m, context) ==
    LET start == Max((m[1] - 1) - BANK_CONTEXT_WINDOW, 0)
        end == Min((m[2] - 1) + BANK_CONTEXT_WINDOW, Len(context))
        local_context == Lower(SubSeq(context, start + 1, end))
    IN  \E k \in DOMAIN BANK_CONTEXT_KEYWORDS :
            Contains(local_context, BANK_CONTEXT_KEYWORDS[k])

SelectSeqBy(xs, keep) ==
    LET F[n \in 0..Len(xs)] ==
            IF n = 0 THEN <<>>
            ELSE IF xs[n] \in keep THEN Append(F[n - 1], xs[n]) ELSE F[n - 1]
    IN  F[Len(xs)]

\* EntityExtractor._extract_regex_patterns(transcript)["account_numbers"]
AccountNumbers(transcript) ==
    LET ms == FindIter("account", transcript, 1)
        valid == SelectSeqBy(ms, {m \in Range(ms) : ValidateBankAccount(m, transcript)})
    IN  Dedup([n \in 1..Len(valid) |-> Slice(transcript, valid[n][1], valid[n][2])])

\* concatenation of a sequence of sequences
RECURSIVE Flatten(_)
Flatten(xss) == IF xss = <<>> THEN <<>> ELSE Head(xss) \o Flatten(Tail(xss))

Item(kind, value, confidence) ==
    [type |-> kind, value |-> value, confidence |-> confidence]

\* variant: when the EntityExtractor cannot be used no item is returned
ExtractIntelligenceOrNothing(user_input, extractorAvailable) ==
    IF ~extractorAvailable THEN <<>>
    ELSE LET byPattern(kind) ==
                 LET ms == FindIter(kind, user_input, 1)
                 IN  [n \in 1..Len(ms) |->
                         Item(kind, FindAllValue(kind, user_input, ms[n]), 90)]
             as == AccountNumbers(user_input)
         IN  Flatten([k \in DOMAIN EXTRACTION_KINDS |-> byPattern(EXTRACTION_KINDS[k])])
             \o [n \in 1..Len(as) |-> Item("account", as[n], 80)]
             \o (IF \E k \in DOMAIN ORG_KEYWORDS :
                        Contains(Lower(user_input), ORG_KEYWORDS[k])
                 THEN <<Item("organization", user_input, 50)>>
                 ELSE <<>>)

\* AgenticController._extract_intelligence_from_input; extractorAvailable says
\* whether the EntityExtractor could be imported and used
ExtractIntelligenceFromInput(user_input, extractorAvailable) ==
    LET byPattern(kind) ==
            LET ms == FindIter(kind, user_input, 1)
            IN  [n \in 1..Len(ms) |-> Item(kind, FindAllValue(kind, user_input, ms[n]), 90)]
        patterns == Flatten([k \in DOMAIN EXTRACTION_KINDS |-> byPattern(EXTRACTION_KINDS[k])])
        accts == IF extractorAvailable
                 THEN LET as == AccountNumbers(user_input)
                      IN  [n \in 1..Len(as) |-> Item("account", as[n], 80)]
                 ELSE LET ms == FindIter("account", user_input, 1)
                      IN  [n \in 1..Len(ms) |->
                              Item("account", Slice(user_input, ms[n][1], ms[n][2]), 60)]
        lowered == Lower(user_input)
        org == IF \E k \in DOMAIN ORG_KEYWORDS : Contains(lowered, ORG_KEYWORDS[k])
               THEN <<Item("organization", user_input, 50)>>
               ELSE <<>>
    IN  patterns \o accts \o org

(***************************************************************************)
(* Bounds of the model and the inputs the environment may supply.          *)
(***************************************************************************)
\* total number of engage calls that pass validation
MaxCalls == 2
\* last value of the clock
MaxTime == 1

\* session ids a caller may pass: a proper id, the empty and a blank one
SessionIdInputs == {<<"s","1">>, <<>>, <<" ">>}
ProperSessionIds == {s \in SessionIdInputs : ~IsBlank(s)}
\* a second proper id, for the store with more than one session
S_OTHER == <<"s","2">>
SweepSessionIds == ProperSessionIds \cup {S_OTHER}

U_STOP  == <<"n","o","n","S","T","O","P">>
U_UPI   == <<"p","a","y"," ","a","@","b">>
U_ORG   == <<"m","y"," ","b","a","n","k">>
\* utterances a caller may pass: one containing a termination keyword in
\* another case inside a word, one with a payment handle, one with an
\* organization keyword, the empty and a blank one
\* a text of whitespace only: a space, a vertical tab (0x0b) and a no-break
\* space (0xa0)
U_BLANK == <<" ", "", " ">>
UserInputs == {U_STOP, U_UPI, U_ORG, <<>>, U_BLANK}
\* a message the honeypot entry point may get besides those: one with a word the
\* demo detector takes for a scam
T_ACCOUNT == <<"m","y"," ","a","c","c","o","u","n","t">>
\* the three utterances of the end-to-end scenario
E2E_TURN_1 ==
    <<"H","e","l","l","o",","," ","I"," ","a","m"," ","f","r","o","m"," ","S","e","c","u","r","e",
      "B","a","n","k",","," ","p","l","e","a","s","e"," ","s","h","a","r","e"," ","y","o","u","r",
      " ","a","c","c","o","u","n","t"," ","n","u","m","b","e","r">>
E2E_TURN_2 ==
    <<"s","e","n","d"," ","p","a","y","m","e","n","t"," ","t","o"," ","f","r","a","u","d","@","u",
      "p","i">>
E2E_TURN_3 ==
    <<"o","k"," ","t","e","r","m","i","n","a","t","e">>
ScenarioInputs == {E2E_TURN_1, E2E_TURN_2, E2E_TURN_3}
\* an utterance with a payment handle and a ten-digit number
U_PAYEE == <<"a","@","b"," ","9","8","7","6","5","4","3","2","1","0">>
TextInputs == UserInputs \cup {T_ACCOUNT, U_PAYEE} \cup ScenarioInputs

\* conversation_history arguments: none, and a list of three entries of which
\* the first two have both sides (under either pair of keys) and the last one
\* has no assistant side
H_NONE == <<>>
H_THREE ==
    << [user |-> <<"a">>, assistant |-> <<"b">>],
       [content |-> <<"c">>, response |-> <<"d">>],
       [user |-> <<"e">>] >>
HistoryInputs == {H_NONE, H_THREE}
\* a list of three entries that all have both sides
H_LONG ==
    << [user |-> <<"a">>, assistant |-> <<"b">>],
       [content |-> <<"c">>, response |-> <<"d">>],
       [user |-> <<"e">>, assistant |-> <<"f">>] >>
SeedHistoryInputs == HistoryInputs \cup {H_LONG}

\* what the Response Generator may do: return a harmless reply, return a
\* reply that asks for a PIN, or fail
G_OK == [ok |-> TRUE, text |-> <<"I"," ","s","e","e">>]
G_PIN == [ok |-> TRUE, text |-> <<"y","o","u","r"," ","P","I","N","?">>]
G_FAIL == [ok |-> FALSE, text |-> <<>>]
GeneratorOutcomes == {G_OK, G_PIN, G_FAIL}
\* in the end-to-end scenario it may also return a reply that asks for an email
G_EMAIL == [ok |-> TRUE, text |-> <<"e","m","a","i","l">>]
ScenarioGeneratorOutcomes == GeneratorOutcomes \cup {G_EMAIL}

\* what the callback endpoint may do with a POST: answer with a success
\* status, answer with another status, or fail in transport
PostOutcomes == {"ok", "status", "exception"}

\* max_age_seconds arguments of clear_old_sessions
MaxAgeInputs == {0, 1}

(***************************************************************************)
(* The text functions tabulated over the inputs above (each table entry is *)
(* the function's value; the tables only save recomputation).              *)
(***************************************************************************)
ReplyCandidates ==
    {g.text : g \in {o \in ScenarioGeneratorOutcomes : o.ok}} \cup {GENERATION_FALLBACK}
SafetyFilterTable == [c \in ReplyCandidates |-> ApplySafetyFilter(c)]
ExtractionTable ==
    [u \in TextInputs |-> [x \in BOOLEAN |-> ExtractIntelligenceFromInput(u, x)]]
BlankTable == [t \in SessionIdInputs \cup SweepSessionIds \cup TextInputs |-> IsBlank(t)]

(***************************************************************************)
(* Settings (backend/app/core/config.py): the defaults, and an environment *)
(* that lowers the thresholds so that few turns reach them.                *)
(***************************************************************************)
DEFAULT_TERMINATION_KEYWORDS ==
    <<<<"t","e","r","m","i","n","a","t","e">>, <<"e","n","d","_","c","a","l","l">>, <<"s","t","o","p">>>>
DEFAULT_MAX_MEMORY_TURNS == 10
DEFAULT_MIN_TURNS_FOR_CALLBACK == 3
DEFAULT_MAX_TURNS_FOR_CALLBACK == 10

DefaultSettings ==
    [AGENT_MAX_MEMORY_TURNS |-> DEFAULT_MAX_MEMORY_TURNS,
     AGENT_TERMINATION_KEYWORDS |-> DEFAULT_TERMINATION_KEYWORDS,
     GUVI_CALLBACK_ENABLED |-> TRUE,
     DEMO_MODE |-> FALSE,
     AGENT_MIN_TURNS_FOR_CALLBACK |-> DEFAULT_MIN_TURNS_FOR_CALLBACK,
     AGENT_MAX_TURNS_FOR_CALLBACK |-> DEFAULT_MAX_TURNS_FOR_CALLBACK]
LowThresholdSettings ==
    [DefaultSettings EXCEPT !.AGENT_MAX_MEMORY_TURNS = 2,
                            !.AGENT_MIN_TURNS_FOR_CALLBACK = 2,
                            !.AGENT_MAX_TURNS_FOR_CALLBACK = 2]
Configurations == {LowThresholdSettings}
\* an environment that sets the memory window to 0
NoMemorySettings == [LowThresholdSettings EXCEPT !.AGENT_MAX_MEMORY_TURNS = 0]
SeedConfigurations == {LowThresholdSettings, NoMemorySettings}

(***************************************************************************)
(* State.                                                                  *)
(***************************************************************************)
VARIABLES
    sessions,   \* AgenticController._sessions: session id -> session dict
    settings,   \* app.core.config.settings, fixed when the process starts
    now,        \* time.time()
    ncalls,     \* number of engage calls that passed validation so far
    audit,      \* per live session: what has happened to it since creation
    lastCall,   \* the call made in the last step and what it returned
    probe,      \* the last application of a text function on its own
    loop        \* the event loop the handlers run on: its tasks, the one that
                \* holds it, and session dicts no longer in the store

vars == <<sessions, settings, now, ncalls, audit, lastCall, probe, loop>>

\* a session as _get_or_create_session makes it; callback_sent is absent
\* from the new dict and session.get("callback_sent") is then falsy
NewSession(t) ==
    [history |-> <<>>, turn_count |-> 0, terminated |-> FALSE,
     extracted_info |-> <<>>, created_at |-> t, last_active |-> t,
     callback_sent |-> FALSE]

\* engage_returns: engage calls that returned; seeded_turns: turns taken from
\* a conversation_history; posts, acks: callback POSTs made and POSTs answered
\* with a success status, both counted up to 2 ("two or more")
NewAudit == [engage_returns |-> 0, seeded_turns |-> 0, posts |-> 0, acks |-> 0]

\* the loop before any request: no task, nobody holds it (0), nothing orphaned
NoLoop == [tasks |-> <<>>, running |-> 0, orphans |-> <<>>]

NoProbe == [fn |-> "none", arg |-> <<>>, result |-> <<>>, done |-> FALSE]

\* no context: the call built none
NoContext == [prompt |-> <<>>, messages |-> <<>>]

\* no payload: the call made no POST
NoPayload ==
    [sessionId |-> <<>>, totalMessagesExchanged |-> 0, bankAccounts |-> <<>>,
     upiIds |-> <<>>, phishingLinks |-> <<>>, phoneNumbers |-> <<>>]

NoCall ==
    [op |-> "none", session_id |-> <<>>, raised |-> FALSE,
     agent_response_text |-> <<>>, turn_number |-> 0, terminated |-> FALSE,
     callback_sent |-> FALSE, generated |-> FALSE, post |-> "none", removed |-> 0,
     history_length |-> 0, extracted_info_count |-> 0,
     error |-> "none", generator |-> "none", generated_text |-> <<>>,
     engage_calls |-> 0, scam_probability |-> 0, max_age_seconds |-> 0,
     conversation_history |-> <<>>, payload |-> NoPayload,
     extractor |-> "unused", context |-> NoContext]

\* the store with the entry for key k set to v (added when absent)
Put(store, k, v) ==
    [x \in DOMAIN store \cup {k} |-> IF x = k THEN v ELSE store[x]]

\* variant: the session is created anew on every lookup
GetOrCreateSessionAnew(store, session_id, t) ==
    Put(store, session_id, NewSession(t))

\* the store after _get_or_create_session(session_id) at time t
GetOrCreateSession(store, session_id, t) ==
    IF session_id \notin DOMAIN store THEN Put(store, session_id, NewSession(t))
    ELSE store

\* item.get(key), with None and "" both as the empty text
Get(item, key) == IF key \in DOMAIN item THEN item[key] ELSE <<>>
\* a or b or ""
OrElse(a, b) == IF a # <<>> THEN a ELSE b

\* xs[-n:]
LastN(xs, n) ==
    IF n = 0 THEN xs
    ELSE IF n < 0 THEN SubSeq(xs, 1 - n, Len(xs))
    ELSE SubSeq(xs, Max(1, Len(xs) - n + 1), Len(xs))

Turn(user, assistant) == [user |-> user, assistant |-> assistant]

\* an entry of a conversation_history is a mapping, written as a record of its
\* keys, or another JSON value, written [scalar |-> text]: item.get raises
\* AttributeError on it
IsMapping(item) == "scalar" \notin DOMAIN item

\* the turns engage appends when it seeds an empty history from
\* conversation_history; the loop stops where item.get raises
RECURSIVE SeedTurns(_)
SeedTurns(items) ==
    IF items = <<>> \/ ~IsMapping(Head(items)) THEN <<>>
    ELSE LET item == Head(items)
             user_text == OrElse(Get(item, "user"), Get(item, "content"))
             assistant_text == OrElse(Get(item, "assistant"), Get(item, "response"))
         IN  (IF user_text # <<>> /\ assistant_text # <<>>
              THEN <<Turn(user_text, assistant_text)>> ELSE <<>>)
             \o SeedTurns(Tail(items))

\* the session after the optional seeding step of engage
SeedHistory(session, conversation_history) ==
    IF conversation_history # <<>> /\ session.history = <<>>
    THEN [session EXCEPT !.history =
             SeedTurns(LastN(conversation_history, settings.AGENT_MAX_MEMORY_TURNS))]
    ELSE session

\* variant: the keywords are looked for without lower-casing the input
CheckTerminationCaseSensitive(user_input, session) ==
    \/ session.terminated
    \/ \E k \in DOMAIN settings.AGENT_TERMINATION_KEYWORDS :
           Contains(user_input, settings.AGENT_TERMINATION_KEYWORDS[k])

\* the seeding step of engage raises: it reaches an entry that is no mapping
SeedingRaises(session, conversation_history) ==
    /\ conversation_history # <<>>
    /\ session.history = <<>>
    /\ \E i \in DOMAIN LastN(conversation_history, settings.AGENT_MAX_MEMORY_TURNS) :
           ~IsMapping(LastN(conversation_history, settings.AGENT_MAX_MEMORY_TURNS)[i])

\* _check_termination
CheckTermination(user_input, session) ==
    \/ session.terminated
    \/ \E k \in DOMAIN settings.AGENT_TERMINATION_KEYWORDS :
           Contains(Lower(user_input), Lower(settings.AGENT_TERMINATION_KEYWORDS[k]))

\* variant: organization items are left out of the count
ExtractedTypesButOrganization(session) ==
    {session.extracted_info[i].type : i \in DOMAIN session.extracted_info}
        \ {"organization"}

\* the distinct truthy types of the session's extracted items
ExtractedTypes(session) ==
    {session.extracted_info[i].type : i \in DOMAIN session.extracted_info}

\* variant: a terminated session no longer triggers
ShouldTriggerCallbackWhileActive(session) ==
    /\ ~session.terminated
    /\ \/ session.turn_count > settings.AGENT_MAX_TURNS_FOR_CALLBACK
       \/ /\ Cardinality(ExtractedTypes(session)) >= 2
          /\ session.turn_count >= settings.AGENT_MIN_TURNS_FOR_CALLBACK

\* variant: the maximum-turns threshold triggers when reached, not when exceeded
ShouldTriggerCallbackAtMaximum(session) ==
    \/ session.terminated
    \/ session.turn_count >= settings.AGENT_MAX_TURNS_FOR_CALLBACK
    \/ /\ Cardinality(ExtractedTypes(session)) >= 2
       /\ session.turn_count >= settings.AGENT_MIN_TURNS_FOR_CALLBACK

\* _should_trigger_callback
ShouldTriggerCallback(session) ==
    \/ session.terminated
    \/ session.turn_count > settings.AGENT_MAX_TURNS_FOR_CALLBACK
    \/ /\ Cardinality(ExtractedTypes(session)) >= 2
       /\ session.turn_count >= settings.AGENT_MIN_TURNS_FOR_CALLBACK

\* variant: the POST is made whether callbacks are enabled or not
SendFinalCallbackAlways(session, outcome) ==
    IF session.callback_sent THEN [session |-> session, post |-> "none"]
    ELSE IF outcome = "ok"
         THEN [session |-> [session EXCEPT !.callback_sent = TRUE], post |-> "ok"]
         ELSE [session |-> session, post |-> "failed"]

\* variant: no early return when the callback was already sent
SendFinalCallbackUnguarded(session, outcome) ==
    IF ~settings.GUVI_CALLBACK_ENABLED THEN [session |-> session, post |-> "none"]
    ELSE IF outcome = "ok"
         THEN [session |-> [session EXCEPT !.callback_sent = TRUE], post |-> "ok"]
         ELSE [session |-> session, post |-> "failed"]

\* variant: callback_sent records the result of the attempt just made
SendFinalCallbackRecordsLast(session, outcome) ==
    IF ~settings.GUVI_CALLBACK_ENABLED THEN [session |-> session, post |-> "none"]
    ELSE [session |-> [session EXCEPT !.callback_sent = (outcome = "ok")],
          post |-> IF outcome = "ok" THEN "ok" ELSE "failed"]

\* variant: callback_sent is set whenever the endpoint answered, whatever the
\* status
SendFinalCallbackIgnoresStatus(session, outcome) ==
    IF session.callback_sent THEN [session |-> session, post |-> "none"]
    ELSE IF ~settings.GUVI_CALLBACK_ENABLED THEN [session |-> session, post |-> "none"]
    ELSE IF outcome # "exception"
         THEN [session |-> [session EXCEPT !.callback_sent = TRUE],
               post |-> IF outcome = "ok" THEN "ok" ELSE "failed"]
         ELSE [session |-> session, post |-> "failed"]

\* variant: callback_sent is set before the POST is made
SendFinalCallbackMarksFirst(session, outcome) ==
    IF session.callback_sent THEN [session |-> session, post |-> "none"]
    ELSE IF ~settings.GUVI_CALLBACK_ENABLED THEN [session |-> session, post |-> "none"]
    ELSE [session |-> [session EXCEPT !.callback_sent = TRUE],
          post |-> IF outcome = "ok" THEN "ok" ELSE "failed"]

\* send_final_callback on a session: the session afterwards and what was
\* done with the POST ("none": no POST was made); outcome is what the
\* endpoint does if a POST is made
SendFinalCallback(session, outcome) ==
    IF session.callback_sent THEN [session |-> session, post |-> "none"]
    ELSE IF ~settings.GUVI_CALLBACK_ENABLED THEN [session |-> session, post |-> "none"]
    ELSE IF outcome = "ok"
         THEN [session |-> [session EXCEPT !.callback_sent = TRUE], post |-> "ok"]
         ELSE [session |-> session, post |-> "failed"]

\* the callback step that ends engage
TriggerCallback(session, outcome) ==
    IF ShouldTriggerCallback(session) /\ ~session.callback_sent
    THEN SendFinalCallback(session, outcome)
    ELSE [session |-> session, post |-> "none"]

\* the end of a turn: the callback step on the updated session, then the
\* values the result is built from
FinishTurn(updated, outcome, response_text, generated, terminated) ==
    [generated |-> generated, agent_response_text |-> response_text,
     terminated |-> terminated] @@ TriggerCallback(updated, outcome)

\* variant: the callback predicate is evaluated before terminated is set
EngageTerminatingTriggersFirst(session, user_input, extractorAvailable, outcome) ==
    [FinishTurn([session EXCEPT
                    !.history = Append(@, Turn(user_input, CLOSING_RESPONSE)),
                    !.turn_count = @ + 1,
                    !.extracted_info = @ \o ExtractionTable[user_input][extractorAvailable]],
                outcome, CLOSING_RESPONSE, FALSE, TRUE)
        EXCEPT !.session.terminated = TRUE]

\* variant: the termination branch records the turn without counting it
EngageTerminatingUncounted(session, user_input, extractorAvailable, outcome) ==
    FinishTurn([session EXCEPT
                   !.history = Append(@, Turn(user_input, CLOSING_RESPONSE)),
                   !.extracted_info = @ \o ExtractionTable[user_input][extractorAvailable],
                   !.terminated = TRUE],
               outcome, CLOSING_RESPONSE, FALSE, TRUE)

\* the termination branch of engage on the (seeded) session
EngageTerminating(session, user_input, extractorAvailable, outcome) ==
    FinishTurn([session EXCEPT
                   !.history = Append(@, Turn(user_input, CLOSING_RESPONSE)),
                   !.turn_count = @ + 1,
                   !.extracted_info = @ \o ExtractionTable[user_input][extractorAvailable],
                   !.terminated = TRUE],
               outcome, CLOSING_RESPONSE, FALSE, TRUE)

\* what the safety filter is applied to: the generated reply, or the fixed
\* fallback when generation failed
Candidate(gen) == IF gen.ok THEN gen.text ELSE GENERATION_FALLBACK

\* variant: the Turn records the candidate as generated, the caller gets the
\* filtered text
EngageGeneratingStoresCandidate(session, user_input, gen, extractorAvailable, outcome) ==
    FinishTurn([session EXCEPT
                   !.history = Append(@, Turn(user_input, Candidate(gen))),
                   !.turn_count = @ + 1,
                   !.extracted_info = @ \o ExtractionTable[user_input][extractorAvailable]],
               outcome, SafetyFilterTable[Candidate(gen)], TRUE, FALSE)

\* variant: a generation failure abandons the turn, the caller still gets the
\* fallback
EngageGeneratingAbandonsOnFailure(session, user_input, gen, extractorAvailable, outcome) ==
    IF gen.ok
    THEN FinishTurn([session EXCEPT
                        !.history = Append(@, Turn(user_input,
                                                   SafetyFilterTable[Candidate(gen)])),
                        !.turn_count = @ + 1,
                        !.extracted_info =
                            @ \o ExtractionTable[user_input][extractorAvailable]],
                    outcome, SafetyFilterTable[Candidate(gen)], TRUE, FALSE)
    ELSE [generated |-> TRUE, agent_response_text |-> GENERATION_FALLBACK,
          terminated |-> FALSE, session |-> session, post |-> "none"]

\* variant: a turn answered with the generation-failure fallback is not counted
EngageGeneratingCountsReplies(session, user_input, gen, extractorAvailable, outcome) ==
    FinishTurn([session EXCEPT
                   !.history = Append(@, Turn(user_input,
                                              SafetyFilterTable[Candidate(gen)])),
                   !.turn_count = IF gen.ok THEN @ + 1 ELSE @,
                   !.extracted_info = @ \o ExtractionTable[user_input][extractorAvailable]],
               outcome, SafetyFilterTable[Candidate(gen)], TRUE, FALSE)

\* variant: the history is cut to the memory window after the Turn is appended
EngageGeneratingTrimsHistory(session, user_input, gen, extractorAvailable, outcome) ==
    FinishTurn([session EXCEPT
                   !.history = LastN(Append(@, Turn(user_input,
                                                    SafetyFilterTable[Candidate(gen)])),
                                     settings.AGENT_MAX_MEMORY_TURNS),
                   !.turn_count = @ + 1,
                   !.extracted_info = @ \o ExtractionTable[user_input][extractorAvailable]],
               outcome, SafetyFilterTable[Candidate(gen)], TRUE, FALSE)

\* the generation branch of engage on the (seeded) session
EngageGenerating(session, user_input, gen, extractorAvailable, outcome) ==
    FinishTurn([session EXCEPT
                   !.history = Append(@, Turn(user_input,
                                              SafetyFilterTable[Candidate(gen)])),
                   !.turn_count = @ + 1,
                   !.extracted_info = @ \o ExtractionTable[user_input][extractorAvailable]],
               outcome, SafetyFilterTable[Candidate(gen)], TRUE, FALSE)

\* the store and the result dict of engage, from the outcome r of the turn
EngageReturn(store, session_id, seeded_turns, r) ==
    [store |-> Put(store, session_id, r.session),
     seeded_turns |-> seeded_turns,
     ret |-> [op |-> "engage", session_id |-> session_id, raised |-> FALSE,
              agent_response_text |-> r.agent_response_text,
              turn_number |-> r.session.turn_count,
              terminated |-> r.terminated,
              callback_sent |-> r.session.callback_sent,
              generated |-> r.generated, post |-> r.post, removed |-> 0,
              history_length |-> 0, extracted_info_count |-> 0,
              error |-> "none", generator |-> "none", generated_text |-> <<>>,
     engage_calls |-> 0, scam_probability |-> 0, max_age_seconds |-> 0,
     conversation_history |-> <<>>, payload |-> NoPayload,
     extractor |-> "unused", context |-> NoContext]]

\* engage from its termination check on, seeded being the session after the
\* seeding step
EngageSeeded(store, session_id, seeded_turns, seeded, user_input, gen, extractorAvailable, outcome) ==
    EngageReturn(store, session_id, seeded_turns,
                 IF CheckTermination(user_input, seeded)
                 THEN EngageTerminating(seeded, user_input, extractorAvailable, outcome)
                 ELSE EngageGenerating(seeded, user_input, gen, extractorAvailable,
                                       outcome))

\* variant: last_active stays what it was
KeepLastActive(session) == session

\* the session with last_active set to the current time
Touch(session) == [session EXCEPT !.last_active = now]

\* the number of turns the seeding step adds to the session
SeededTurns(session, conversation_history) ==
    Len(SeedHistory(session, conversation_history).history) - Len(session.history)

\* engage after its validation, on the store that holds the session
EngageTurn(store, session_id, user_input, conversation_history, gen, extractorAvailable, outcome) ==
    IF SeedingRaises(store[session_id], conversation_history)
    THEN [store |-> Put(store, session_id,
                        SeedHistory(Touch(store[session_id]), conversation_history)),
          seeded_turns |-> SeededTurns(store[session_id], conversation_history),
          ret |-> [NoCall EXCEPT !.op = "engage", !.session_id = session_id,
                                 !.raised = TRUE, !.error = "AttributeError"]]
    ELSE EngageSeeded(store, session_id,
                      SeededTurns(store[session_id], conversation_history),
                      SeedHistory(Touch(store[session_id]), conversation_history),
                      user_input, gen, extractorAvailable, outcome)

\* the validation that opens engage
InvalidInput(session_id, user_input) == BlankTable[session_id] \/ BlankTable[user_input]

\* the audit record of a session after a call
Audited(old, session_id, returns, seededTurns, post) ==
    LET a == IF session_id \in DOMAIN old THEN old[session_id] ELSE NewAudit
    IN  Put(old, session_id,
            [engage_returns |-> a.engage_returns + returns,
             seeded_turns |-> a.seeded_turns + seededTurns,
             posts |-> Min(2, a.posts + (IF post = "none" THEN 0 ELSE 1)),
             acks |-> Min(2, a.acks + (IF post = "ok" THEN 1 ELSE 0))])

\* variant: the session is looked up (and created) before the validation
EngageCreatesFirst(store, session_id, user_input, conversation_history, gen, extractorAvailable, outcome) ==
    IF InvalidInput(session_id, user_input)
    THEN [store |-> GetOrCreateSession(store, session_id, now), seeded_turns |-> 0,
          ret |-> [NoCall EXCEPT !.op = "engage", !.raised = TRUE,
                                 !.error = "ValueError"]]
    ELSE EngageTurn(GetOrCreateSession(store, session_id, now), session_id,
                    user_input, conversation_history, gen, extractorAvailable, outcome)

\* engage(session_id, user_input, conversation_history): the store afterwards,
\* the number of turns seeded and what the call returned (raised: ValueError)
Engage(store, session_id, user_input, conversation_history, gen, extractorAvailable, outcome) ==
    IF InvalidInput(session_id, user_input)
    THEN [store |-> store, seeded_turns |-> 0,
          ret |-> [NoCall EXCEPT !.op = "engage", !.raised = TRUE,
                                 !.error = "ValueError"]]
    ELSE EngageTurn(GetOrCreateSession(store, session_id, now), session_id,
                    user_input, conversation_history, gen, extractorAvailable, outcome)

\* the callback step of terminate_session on the session marked terminated
TerminateCallback(marked, outcome) ==
    IF ~marked.callback_sent /\ ShouldTriggerCallback(marked)
    THEN SendFinalCallback(marked, outcome)
    ELSE [session |-> marked, post |-> "none"]

\* the store and the result dict of a call named op on session_id whose
\* callback step gave cb
CallbackReturn(op, store, session_id, cb, terminated) ==
    [store |-> Put(store, session_id, cb.session),
     ret |-> [NoCall EXCEPT !.op = op,
                            !.session_id = session_id,
                            !.terminated = terminated,
                            !.callback_sent = cb.session.callback_sent,
                            !.post = cb.post]]

\* variant: the summary is returned without marking the session terminated
TerminateSessionUnmarked(store, session_id, outcome) ==
    CallbackReturn("terminate_session", GetOrCreateSession(store, session_id, now),
                   session_id,
                   TerminateCallback(GetOrCreateSession(store, session_id, now)[session_id],
                                     outcome),
                   TRUE)

\* terminate_session(session_id)
TerminateSession(store, session_id, outcome) ==
    CallbackReturn("terminate_session", GetOrCreateSession(store, session_id, now),
                   session_id,
                   TerminateCallback(
                       [GetOrCreateSession(store, session_id, now)[session_id]
                           EXCEPT !.terminated = TRUE], outcome),
                   TRUE)

\* the result dict of get_session_info for the session
SessionInfo(session_id, session) ==
    [NoCall EXCEPT !.op = "get_session_info",
                   !.session_id = session_id,
                   !.turn_number = session.turn_count,
                   !.history_length = Len(session.history),
                   !.extracted_info_count = Len(session.extracted_info),
                   !.terminated = session.terminated]

\* get_session_info(session_id)
GetSessionInfo(store, session_id) ==
    [store |-> GetOrCreateSession(store, session_id, now),
     ret |-> SessionInfo(session_id,
                         GetOrCreateSession(store, session_id, now)[session_id])]

\* a direct call of send_final_callback(session_id)
SendFinalCallbackCall(store, session_id, outcome) ==
    CallbackReturn("send_final_callback", GetOrCreateSession(store, session_id, now),
                   session_id,
                   SendFinalCallback(
                       GetOrCreateSession(store, session_id, now)[session_id], outcome),
                   FALSE)

\* the ids clear_old_sessions(max_age_seconds) removes
Expired(store, max_age_seconds) ==
    {sid \in DOMAIN store : now - store[sid].last_active > max_age_seconds}

\* variant: an expired session is emptied in place and keeps its flags
ClearOldSessionsKeepsFlags(store, max_age_seconds) ==
    [store |-> [sid \in DOMAIN store |->
                   IF sid \in Expired(store, max_age_seconds)
                   THEN [NewSession(now) EXCEPT
                            !.terminated = store[sid].terminated,
                            !.callback_sent = store[sid].callback_sent]
                   ELSE store[sid]],
     ret |-> [NoCall EXCEPT !.op = "clear_old_sessions",
                            !.removed = Cardinality(Expired(store, max_age_seconds))]]

\* clear_old_sessions(max_age_seconds)
ClearOldSessions(store, max_age_seconds) ==
    [store |-> [sid \in DOMAIN store \ Expired(store, max_age_seconds) |-> store[sid]],
     ret |-> [NoCall EXCEPT !.op = "clear_old_sessions",
                            !.removed = Cardinality(Expired(store, max_age_seconds))]]

(***************************************************************************)
(* The state machine: one action per call on the controller.               *)
(***************************************************************************)
Init ==
    /\ sessions = <<>>
    /\ settings \in Configurations
    /\ now = 0
    /\ ncalls = 0
    /\ audit = <<>>
    /\ lastCall = NoCall
    /\ probe = NoProbe
    /\ loop = NoLoop

\* the record of a call with what the Response Generator did in it
Observed(ret, gen) ==
    IF ret.generated
    THEN [ret EXCEPT !.generator = IF gen.ok THEN "ok" ELSE "failed",
                     !.generated_text = gen.text]
    ELSE ret

\* engage rejects the call: the history argument is never read and neither
\* the generator nor the endpoint is consulted, so none of them is drawn
EngageRejected ==
    \E session_id \in SessionIdInputs, user_input \in UserInputs :
        \E r \in {Engage(sessions, session_id, user_input, H_THREE,
                        G_FAIL, FALSE, "exception")} :
            /\ InvalidInput(session_id, user_input)
            /\ sessions' = r.store
            /\ lastCall' = r.ret
            /\ audit' = IF r.ret.raised THEN audit
                        ELSE Audited(audit, session_id, 1,
                                     r.seeded_turns, r.ret.post)
            /\ ncalls' = IF r.ret.raised THEN ncalls ELSE ncalls + 1
            /\ UNCHANGED <<settings, now, probe, loop>>

\* engage runs a turn
EngageAction ==
    \E session_id \in SessionIdInputs, user_input \in UserInputs,
       conversation_history \in HistoryInputs :
        /\ ~InvalidInput(session_id, user_input)
        /\ ncalls < MaxCalls
        /\ \E gen \in GeneratorOutcomes, extractorAvailable \in {TRUE},
              outcome \in PostOutcomes :
               \E r \in {Engage(sessions, session_id, user_input, conversation_history,
                               gen, extractorAvailable, outcome)} :
                   /\ sessions' = r.store
                   /\ lastCall' = Observed(r.ret, gen)
                   /\ ncalls' = ncalls + 1
                   /\ audit' = Audited(audit, session_id,
                                       IF r.ret.raised THEN 0 ELSE 1,
                                       r.seeded_turns, r.ret.post)
                   /\ UNCHANGED <<settings, now, probe, loop>>

TerminateSessionAction ==
    \E session_id \in ProperSessionIds, outcome \in PostOutcomes :
        \E r \in {TerminateSession(sessions, session_id, outcome)} :
            /\ sessions' = r.store
            /\ lastCall' = r.ret
            /\ audit' = Audited(audit, session_id, 0, 0, r.ret.post)
            /\ UNCHANGED <<settings, now, ncalls, probe, loop>>

GetSessionInfoAction ==
    \E session_id \in ProperSessionIds :
        \E r \in {GetSessionInfo(sessions, session_id)} :
            /\ sessions' = r.store
            /\ lastCall' = r.ret
            /\ audit' = Audited(audit, session_id, 0, 0, "none")
            /\ UNCHANGED <<settings, now, ncalls, probe, loop>>

SendFinalCallbackAction ==
    \E session_id \in ProperSessionIds, outcome \in PostOutcomes :
        \E r \in {SendFinalCallbackCall(sessions, session_id, outcome)} :
            /\ sessions' = r.store
            /\ lastCall' = r.ret
            /\ audit' = Audited(audit, session_id, 0, 0, r.ret.post)
            /\ UNCHANGED <<settings, now, ncalls, probe, loop>>

ClearOldSessionsAction ==
    \E max_age_seconds \in MaxAgeInputs :
        \E r \in {ClearOldSessions(sessions, max_age_seconds)} :
            /\ sessions' = r.store
            /\ lastCall' = r.ret
            /\ audit' = [sid \in DOMAIN r.store |-> audit[sid]]
            /\ UNCHANGED <<settings, now, ncalls, probe, loop>>

\* time passes
Tick ==
    /\ now < MaxTime
    /\ now' = now + 1
    /\ lastCall' = NoCall
    /\ UNCHANGED <<sessions, settings, ncalls, audit, probe, loop>>

Next ==
    \/ EngageRejected
    \/ EngageAction
    \/ TerminateSessionAction
    \/ GetSessionInfoAction
    \/ SendFinalCallbackAction
    \/ ClearOldSessionsAction
    \/ Tick

Spec == Init /\ [][Next]_vars

(***************************************************************************)
(* The safety filter on its own: it is applied to candidate replies made   *)
(* of up to MaxWords words of FilterWords separated by single spaces, and   *)
(* to a few whose words are separated by other whitespace.                 *)
(***************************************************************************)
MaxWords == 2

FilterWords ==
    {<<"O","T","P">>,
     <<"a","c","c","o","u","n","t">>,
     <<"n","u","m","b","e","r">>,
     <<"P","I","N">>,
     <<"c","a","r","d">>,
     <<"S","S","N">>,
     <<"a","d","d","r","e","s","s">>,
     <<"e","m","a","i","l">>,
     <<"K","Y","C">>,
     <<"o","k">>,
     <<"1","2","3","4","5","6","7","8","9">>,
     <<"1","2","3","4","5","6","7","8">>,
     <<"1","2","3","4","5","6","7","8","9","0","1","2","3","4","5","6","7","8","9","0">>}

\* the texts of exactly n words
RECURSIVE Phrases(_)
Phrases(n) ==
    IF n = 1 THEN FilterWords
    ELSE {p \o <<" ">> \o w : p \in Phrases(n - 1), w \in FilterWords}

\* candidates whose words are separated by whitespace other than a space (a
\* vertical tab 0x0b, a file separator 0x1c, a no-break space 0xa0), and one
\* whose protected word is followed by an accented letter
FilterSeparatorTexts ==
    {<<"b","a","n","k","","a","c","c","o","u","n","t">>,
     <<"o","n","e","","t","i","m","e"," ","p","a","s","s","w","o","r","d">>,
     <<"i","d","","p","r","o","o","f">>,
     <<"b","a","n","k"," ","a","c","c","o","u","n","t">>,
     <<"P","I","N","é">>}

FilterCandidates == FilterSeparatorTexts \cup UNION {Phrases(n) : n \in 1..MaxWords}

\* a candidate has been drawn and the filter has not been applied yet
FilterInit ==
    /\ sessions = <<>>
    /\ settings \in Configurations
    /\ now = 0
    /\ ncalls = 0
    /\ audit = <<>>
    /\ lastCall = NoCall
    /\ loop = NoLoop
    /\ probe \in {[fn |-> "_apply_safety_filter", arg |-> response,
                   result |-> <<>>, done |-> FALSE] : response \in FilterCandidates}

ApplySafetyFilterAction ==
    /\ probe.fn = "_apply_safety_filter"
    /\ ~probe.done
    /\ probe' = [probe EXCEPT !.result = ApplySafetyFilter(probe.arg), !.done = TRUE]
    /\ UNCHANGED <<sessions, settings, now, ncalls, audit, lastCall, loop>>

FilterNext == ApplySafetyFilterAction

FilterSpec == FilterInit /\ [][FilterNext]_vars

(***************************************************************************)
(* One conversation long enough to cross the callback thresholds: engage   *)
(* turns on a single session, the generator always answering.              *)
(***************************************************************************)
\* number of turns of the conversation
MaxTurns == 4

MidThresholdSettings ==
    [DefaultSettings EXCEPT !.AGENT_MIN_TURNS_FOR_CALLBACK = 2,
                            !.AGENT_MAX_TURNS_FOR_CALLBACK = 3]
ConversationConfigurations == {DefaultSettings, MidThresholdSettings}
ConversationInputs == {U_STOP, U_UPI, U_ORG}

ConversationInit ==
    /\ sessions = <<>>
    /\ settings \in ConversationConfigurations
    /\ now = 0
    /\ ncalls = 0
    /\ audit = <<>>
    /\ lastCall = NoCall
    /\ probe = NoProbe
    /\ loop = NoLoop

ConversationTurn ==
    \E session_id \in ProperSessionIds, user_input \in ConversationInputs,
       outcome \in PostOutcomes :
        /\ ncalls < MaxTurns
        /\ \E r \in {Engage(sessions, session_id, user_input, H_NONE, G_OK, TRUE,
                           outcome)} :
               /\ sessions' = r.store
               /\ lastCall' = Observed(r.ret, G_OK)
               /\ ncalls' = ncalls + 1
               /\ audit' = Audited(audit, session_id, 1, r.seeded_turns, r.ret.post)
               /\ UNCHANGED <<settings, now, probe, loop>>

ConversationNext == ConversationTurn

ConversationSpec == ConversationInit /\ [][ConversationNext]_vars

(***************************************************************************)
(* The agent-local extractor on its own: it is applied to the example      *)
(* utterance of the specification and to utterances of up to MaxWords      *)
(* words of ExtractWords, with the EntityExtractor importable or not.      *)
(***************************************************************************)
UPI_EXAMPLE == <<"r","a","j","u","@","u","p","i">>
PHONE_EXAMPLE == <<"+","9","1","9","8","7","6","5","4","3","2","1","0">>
EXTRACTION_EXAMPLE ==
    <<"p","a","y"," ","t","o"," ","r","a","j","u","@","u","p","i"," ","o","r"," ","c","a","l","l",
      " ","+","9","1","9","8","7","6","5","4","3","2","1","0">>

ExtractWords ==
    {<<"p","a","y">>,
     <<"c","a","l","l">>,
     <<"b","a","n","k">>,
     UPI_EXAMPLE,
     PHONE_EXAMPLE,
     <<"9","8","7","6","5","4","3","2","1","0">>}

\* the texts of exactly n words of a set of words
RECURSIVE PhrasesOf(_, _)
PhrasesOf(words, n) ==
    IF n = 1 THEN words
    ELSE {p \o <<" ">> \o w : p \in PhrasesOf(words, n - 1), w \in words}

\* utterances with a vertical tab (0x0b) after the country code of a phone
\* number and inside what would otherwise be one link, and utterances with an
\* accented letter in a payment handle and before a run of digits
ExtractSeparatorTexts ==
    {<<"x","+","9","1","","9","8","7","6","5","4","3","2","1","0">>,
     <<"s","e","e"," ","h","t","t","p",":","/","/","a","","b"," ","c">>,
     <<"é","@","b">>,
     <<"b","a","n","k","é","1","2","3","4","5","6","7","8","9">>}

ExtractInputs ==
    {EXTRACTION_EXAMPLE} \cup ExtractSeparatorTexts
        \cup UNION {PhrasesOf(ExtractWords, n) : n \in 1..MaxWords}

ExtractInit ==
    /\ sessions = <<>>
    /\ settings \in Configurations
    /\ now = 0
    /\ ncalls = 0
    /\ audit = <<>>
    /\ lastCall = NoCall
    /\ probe \in {[fn |-> "_extract_intelligence_from_input",
                   arg |-> [user_input |-> u, extractorAvailable |-> x],
                   result |-> <<>>, done |-> FALSE] :
                      u \in ExtractInputs, x \in BOOLEAN}
    /\ loop = NoLoop

ExtractIntelligenceAction ==
    /\ probe.fn = "_extract_intelligence_from_input"
    /\ ~probe.done
    /\ probe' = [probe EXCEPT
                    !.result = ExtractIntelligenceFromInput(probe.arg.user_input,
                                                            probe.arg.extractorAvailable),
                    !.done = TRUE]
    /\ UNCHANGED <<sessions, settings, now, ncalls, audit, lastCall, loop>>

ExtractNext == ExtractIntelligenceAction

ExtractSpec == ExtractInit /\ [][ExtractNext]_vars

(***************************************************************************)
(* The controller behind the /engage route, which hands engage the parsed  *)
(* JSON of the conversation_history form field as it is: a list whose      *)
(* entries need not be mappings.                                           *)
(***************************************************************************)
H_UNTYPED == << [scalar |-> <<"x">>] >>
H_MIXED == << [user |-> <<"a">>, assistant |-> <<"b">>], [scalar |-> <<"x">>] >>
RawHistoryInputs == HistoryInputs \cup {H_UNTYPED, H_MIXED}

RawEngageAction ==
    \E session_id \in SessionIdInputs, user_input \in UserInputs,
       conversation_history \in RawHistoryInputs, outcome \in PostOutcomes :
        /\ ncalls < MaxCalls
        /\ \E r \in {Engage(sessions, session_id, user_input, conversation_history,
                           G_OK, TRUE, outcome)} :
               /\ sessions' = r.store
               /\ lastCall' = Observed(r.ret, G_OK)
               /\ ncalls' = ncalls + 1
               /\ audit' = IF r.ret.error = "ValueError" THEN audit
                           ELSE Audited(audit, session_id,
                                        IF r.ret.raised THEN 0 ELSE 1,
                                        r.seeded_turns, r.ret.post)
               /\ UNCHANGED <<settings, now, probe, loop>>

RawNext ==
    \/ RawEngageAction
    \/ TerminateSessionAction
    \/ GetSessionInfoAction
    \/ Tick

RawSpec == Init /\ [][RawNext]_vars

(***************************************************************************)
(* The honeypot entry point (backend/app/api/routes.py): a classifier      *)
(* decides whether the controller is engaged at all. Probabilities are in  *)
(* thousandths (0.7 is 700).                                               *)
(***************************************************************************)
SCAM_THRESHOLD == 700
DEMO_SCAM_PROBABILITY == 870
DEMO_LEGITIMATE_PROBABILITY == 230
\* ScamDetector.MAX_TRANSCRIPT_LENGTH
MAX_TRANSCRIPT_LENGTH == 10000

NEUTRAL_REPLY ==
    <<"I","'","m"," ","n","o","t"," ","s","u","r","e"," ","I"," ","u","n","d","e","r","s","t","a","n","d","."," ","C","o","u","l","d"," ","y","o","u"," ","c","l","a","r","i","f","y","?">>
DEMO_PAYMENT_REPLY ==
    <<"O","h",","," ","I"," ","s","e","e","."," ","W","h","a","t"," ","p","a","y","m","e","n","t"," ","m","e","t","h","o","d"," ","d","o"," ","y","o","u"," ","p","r","e","f","e","r","?">>
DEMO_ACCOUNT_REPLY ==
    <<"I","'","m"," ","a"," ","b","i","t"," ","c","o","n","f","u","s","e","d"," ","a","b","o","u","t"," ","a","c","c","o","u","n","t","s","."," ","C","a","n"," ","y","o","u"," ","e","x","p","l","a","i","n"," ","m","o","r","e","?">>
DEMO_DEFAULT_REPLY ==
    <<"T","h","a","t","'","s"," ","i","n","t","e","r","e","s","t","i","n","g","."," ","T","e","l","l"," ","m","e"," ","m","o","r","e"," ","a","b","o","u","t"," ","y","o","u","r"," ","o","r","g","a","n","i","z","a","t","i","o","n",".">>
KW_PAYMENT == <<"p","a","y","m","e","n","t">>
KW_ACCOUNT == <<"a","c","c","o","u","n","t">>
DEMO_SCAM_KEYWORDS ==
    <<<<"l","o","t","t","e","r","y">>,
      <<"p","r","i","z","e">>,
      <<"w","o","n">>,
      <<"w","i","n","n","e","r">>,
      <<"c","l","a","i","m">>,
      <<"r","e","f","u","n","d">>,
      <<"t","a","x">>,
      <<"p","a","y","m","e","n","t">>,
      <<"u","r","g","e","n","t">>,
      <<"v","e","r","i","f","y">>,
      <<"s","u","s","p","e","n","d">>,
      <<"a","c","c","o","u","n","t">>,
      <<"p","a","s","s","w","o","r","d">>,
      <<"c","l","i","c","k">>,
      <<"l","i","n","k">>>>

\* ScamDetector.detect_demo(text, mock_result=True) in demo mode
DetectDemo(text) ==
    IF \E k \in DOMAIN DEMO_SCAM_KEYWORDS : Contains(Lower(text), DEMO_SCAM_KEYWORDS[k])
    THEN DEMO_SCAM_PROBABILITY ELSE DEMO_LEGITIMATE_PROBABILITY

\* the reply of engage_demo in demo mode
EngageDemoReply(text) ==
    IF Contains(Lower(text), KW_PAYMENT) THEN DEMO_PAYMENT_REPLY
    ELSE IF Contains(Lower(text), KW_ACCOUNT) THEN DEMO_ACCOUNT_REPLY
    ELSE DEMO_DEFAULT_REPLY

\* variant: a message of the agent goes into the last entry whether that
\* entry has a reply already or not
RECURSIVE AgentHistoryFromOverwrites(_, _)
AgentHistoryFromOverwrites(agent_history, msgs) ==
    IF msgs = <<>> THEN agent_history
    ELSE AgentHistoryFromOverwrites(
             IF Head(msgs).sender = "scammer"
             THEN Append(agent_history, [user |-> Head(msgs).text, assistant |-> <<>>])
             ELSE IF Head(msgs).sender = "user"
             THEN IF Len(agent_history) > 0
                  THEN [agent_history EXCEPT ![Len(agent_history)].assistant =
                                                 Head(msgs).text]
                  ELSE Append(agent_history,
                              [user |-> <<>>, assistant |-> Head(msgs).text])
             ELSE agent_history,
             Tail(msgs))

\* the conversion of conversationHistory into agent turns, before the
\* incomplete turns are removed
RECURSIVE AgentHistoryFrom(_, _)
AgentHistoryFrom(agent_history, msgs) ==
    IF msgs = <<>> THEN agent_history
    ELSE LET msg == Head(msgs)
             n == Len(agent_history)
         IN  AgentHistoryFrom(
                 IF msg.sender = "scammer"
                 THEN Append(agent_history, [user |-> msg.text, assistant |-> <<>>])
                 ELSE IF msg.sender = "user"
                 THEN IF n > 0 /\ agent_history[n].assistant = <<>>
                      THEN [agent_history EXCEPT ![n].assistant = msg.text]
                      ELSE Append(agent_history, [user |-> <<>>, assistant |-> msg.text])
                 ELSE agent_history,
                 Tail(msgs))

IsCompleteTurn(turn) == turn.user # <<>> /\ turn.assistant # <<>>

\* the conversation_history the handler passes to engage
AgentHistory(conversationHistory) ==
    SelectSeq(AgentHistoryFrom(<<>>, conversationHistory), IsCompleteTurn)

\* the record of a honeypot request answered without the controller's engage
HoneypotSkipped(store, sessionId, reply_text, scam_probability) ==
    [store |-> store, seeded_turns |-> 0,
     ret |-> [NoCall EXCEPT !.op = "honeypot", !.session_id = sessionId,
                            !.agent_response_text = reply_text,
                            !.scam_probability = scam_probability]]

\* the record of a honeypot request that called engage, r being what engage
\* did; a ValueError becomes the response 400
HoneypotEngaged(sessionId, r, scam_probability) ==
    [store |-> r.store, seeded_turns |-> r.seeded_turns,
     ret |-> [r.ret EXCEPT !.op = "honeypot", !.session_id = sessionId,
                           !.engage_calls = 1,
                           !.scam_probability = scam_probability]]

\* the handler from its threshold decision on
HoneypotDecide(store, sessionId, text, conversationHistory, scam_probability, gen, outcome) ==
    IF scam_probability < SCAM_THRESHOLD
    THEN HoneypotSkipped(store, sessionId, NEUTRAL_REPLY, scam_probability)
    ELSE IF settings.DEMO_MODE
    THEN HoneypotSkipped(store, sessionId, EngageDemoReply(text), scam_probability)
    ELSE HoneypotEngaged(sessionId,
                         Engage(store, sessionId, text, AgentHistory(conversationHistory),
                                gen, TRUE, outcome),
                         scam_probability)

\* ScamDetector._validate_transcript: the texts detect and detect_scam refuse
\* with a ValueError before the classifier runs
InvalidTranscript(transcript) ==
    IsBlank(transcript) \/ Len(transcript) > MAX_TRANSCRIPT_LENGTH

\* the record of a honeypot request whose text the detector refused: the
\* ValueError becomes the response 400, no probability is computed and engage
\* is not called
HoneypotRefused(store, sessionId) ==
    [store |-> store, seeded_turns |-> 0,
     ret |-> [NoCall EXCEPT !.op = "honeypot", !.session_id = sessionId,
                            !.raised = TRUE, !.error = "ValueError"]]

\* the probability the handler reads from the detection result
ScamProbability(text, detected) ==
    IF settings.DEMO_MODE THEN DetectDemo(text) ELSE detected

\* variant: a probability equal to the threshold is treated as below it
HoneypotThresholdExclusive(store, sessionId, text, conversationHistory, detected, gen, outcome) ==
    IF ~settings.DEMO_MODE /\ InvalidTranscript(text)
    THEN HoneypotRefused(store, sessionId)
    ELSE IF ScamProbability(text, detected) <= SCAM_THRESHOLD
    THEN HoneypotSkipped(store, sessionId, NEUTRAL_REPLY, ScamProbability(text, detected))
    ELSE HoneypotDecide(store, sessionId, text, conversationHistory,
                        ScamProbability(text, detected), gen, outcome)

\* the honeypot handler; detected is the probability the classifier gives
\* when the detector is not in demo mode (0 when the classifier fails).  In
\* demo mode detect_demo answers from the keywords without validating the
\* text; otherwise detect validates it first.
Honeypot(store, sessionId, text, conversationHistory, detected, gen, outcome) ==
    IF ~settings.DEMO_MODE /\ InvalidTranscript(text)
    THEN HoneypotRefused(store, sessionId)
    ELSE HoneypotDecide(store, sessionId, text, conversationHistory,
                        ScamProbability(text, detected), gen, outcome)

HoneypotTexts == {U_STOP, U_UPI, T_ACCOUNT, U_BLANK}
HoneypotSessionIds == {<<"s","1">>, <<" ">>}
\* what the detector may answer: its failure default, just below the
\* threshold, the threshold, above it
DetectorOutcomes == {0, SCAM_THRESHOLD - 1, SCAM_THRESHOLD, DEMO_SCAM_PROBABILITY}
M_NONE == <<>>
M_FOUR ==
    << [sender |-> "scammer", text |-> <<"a">>],
       [sender |-> "user", text |-> <<"b">>],
       [sender |-> "user", text |-> <<"c">>],
       [sender |-> "scammer", text |-> <<"e">>] >>
HoneypotHistories == {M_NONE, M_FOUR}

DemoSettings == [LowThresholdSettings EXCEPT !.DEMO_MODE = TRUE]
HoneypotConfigurations == {LowThresholdSettings, DemoSettings}

HoneypotInit ==
    /\ sessions = <<>>
    /\ settings \in HoneypotConfigurations
    /\ now = 0
    /\ ncalls = 0
    /\ audit = <<>>
    /\ lastCall = NoCall
    /\ probe = NoProbe
    /\ loop = NoLoop

HoneypotAction ==
    \E sessionId \in HoneypotSessionIds, text \in HoneypotTexts,
       conversationHistory \in HoneypotHistories, detected \in DetectorOutcomes,
       gen \in {G_OK, G_FAIL}, outcome \in PostOutcomes :
        /\ ncalls < MaxCalls
        /\ \E r \in {Honeypot(sessions, sessionId, text, conversationHistory,
                             detected, gen, outcome)} :
               /\ sessions' = r.store
               /\ lastCall' = Observed(r.ret, gen)
               /\ ncalls' = ncalls + 1
               /\ audit' = IF r.ret.engage_calls = 0 \/ r.ret.error = "ValueError"
                           THEN audit
                           ELSE Audited(audit, sessionId,
                                        IF r.ret.raised THEN 0 ELSE 1,
                                        r.seeded_turns, r.ret.post)
               /\ UNCHANGED <<settings, now, probe, loop>>

HoneypotNext ==
    \/ HoneypotAction
    \/ GetSessionInfoAction
    \/ Tick

HoneypotSpec == HoneypotInit /\ [][HoneypotNext]_vars

(***************************************************************************)
(* Handlers on the event loop.  Every route is a coroutine (async def) and *)
(* calls the controller with a plain call; the controller's methods are    *)
(* plain functions, the Response Generator and requests.post are blocking  *)
(* calls.  A request is a task of the loop; a task takes a step when it    *)
(* holds the loop or the loop is free, and keeps the loop until it is done *)
(* or reaches a position where it yields.  The steps of a task are cut at  *)
(* its external calls.                                                     *)
(***************************************************************************)
\* number of requests the loop is given
MaxTasks == 2

\* variant: the handler awaits its external calls
YieldsAtExternalCalls(pc) == pc \in {"generating", "posting"}

\* whether a handler gives up the loop when it reaches position pc: the
\* route calls agent.engage without await and engage has no await in it
Yields(pc) == FALSE

\* utterances, generator outcomes, endpoint outcomes and sweep ages of the
\* requests given to the loop
LoopUserInputs == {U_STOP, U_UPI, <<>>}
LoopGeneratorOutcomes == {G_OK, G_FAIL}
LoopPostOutcomes == {"ok", "status"}
SHUTDOWN_MAX_AGE == 0

\* a request as it arrives: gen and outcome are what the Response Generator
\* and the callback endpoint answer to this request if it asks them; ref and
\* cbref name the dict the handler (ref) and send_final_callback (cbref) hold:
\* 0 is the dict in the store, n the n-th dict of that id removed from it
NewTask(op, session_id, user_input, gen, outcome, max_age_seconds) ==
    [op |-> op, session_id |-> session_id, user_input |-> user_input, gen |-> gen,
     outcome |-> outcome, max_age_seconds |-> max_age_seconds,
     pc |-> "start", ref |-> 0, cbref |-> 0, terminated |-> FALSE, post |-> "none"]

EngageTasks ==
    {NewTask("engage", s, u, g, o, 0) :
        s \in ProperSessionIds, u \in LoopUserInputs \ {<<>>},
        g \in LoopGeneratorOutcomes, o \in LoopPostOutcomes}
    \cup {NewTask("engage", s, <<>>, G_FAIL, "status", 0) : s \in ProperSessionIds}
TerminateTasks ==
    {NewTask("terminate_session", s, <<>>, G_FAIL, o, 0) :
        s \in ProperSessionIds, o \in LoopPostOutcomes}
SweepTasks ==
    {NewTask("clear_old_sessions", <<>>, <<>>, G_FAIL, "status", SHUTDOWN_MAX_AGE)}
TaskInputs == EngageTasks \cup TerminateTasks \cup SweepTasks

\* the session dict a reference names
Obj(store, orphans, session_id, ref) ==
    IF ref = 0 THEN store[session_id] ELSE orphans[<<session_id, ref>>]

\* the store and the removed dicts after a write of v through a reference
WriteObj(store, orphans, session_id, ref, v) ==
    IF ref = 0 THEN [store |-> Put(store, session_id, v), orphans |-> orphans]
    ELSE [store |-> store, orphans |-> [orphans EXCEPT ![<<session_id, ref>>] = v]]

\* the callback step up to the POST: the handler tests the trigger on the
\* dict looked up by id and callback_sent on the dict it holds, and
\* send_final_callback tests its guards on the dict looked up by id
WouldPost(local, byId) ==
    /\ ShouldTriggerCallback(byId)
    /\ ~local.callback_sent
    /\ SendFinalCallback(byId, "ok").post = "ok"

\* what the response to the POST does to the dict send_final_callback holds
Posted(session, outcome) ==
    IF outcome = "ok" THEN [session EXCEPT !.callback_sent = TRUE] ELSE session

\* the result dict of a task that made the POST post, from the dict it holds
TaskReturn(task, local, post) ==
    IF task.op = "engage"
    THEN Observed(EngageReturn(<<>>, task.session_id, 0,
                               [session |-> local,
                                agent_response_text |->
                                    IF task.terminated THEN CLOSING_RESPONSE
                                    ELSE SafetyFilterTable[Candidate(task.gen)],
                                terminated |-> task.terminated,
                                generated |-> ~task.terminated,
                                post |-> post]).ret,
                  task.gen)
    ELSE CallbackReturn("terminate_session", <<>>, task.session_id,
                        [session |-> local, post |-> post], TRUE).ret

\* a request arrives
Arrive ==
    /\ Len(loop.tasks) < MaxTasks
    /\ \E task \in TaskInputs : loop' = [loop EXCEPT !.tasks = Append(@, task)]
    /\ lastCall' = NoCall
    /\ UNCHANGED <<sessions, settings, now, ncalls, audit, probe>>

\* the loop and the call record when task t, now task, reaches position pc
\* with the removed dicts orphans: it keeps the loop unless it is done or
\* yields there; ret is what it returns if it is done
Reached(t, task, pc, orphans, ret) ==
    /\ loop' = [tasks |-> [loop.tasks EXCEPT ![t] = [task EXCEPT !.pc = pc]],
                running |-> IF pc = "done" \/ Yields(pc) THEN 0 ELSE t,
                orphans |-> orphans]
    /\ lastCall' = IF pc = "done" THEN ret ELSE NoCall

\* the end of the part of a handler that runs up to the POST: the handler
\* goes on to the POST, or returns
UpToPost(t, task, local, byId) ==
    IF WouldPost(local, byId)
    THEN /\ Reached(t, [task EXCEPT !.cbref = 0], "posting", loop.orphans, NoCall)
         /\ audit' = Audited(audit, task.session_id, 0, 0, "none")
    ELSE /\ Reached(t, task, "done", loop.orphans, TaskReturn(task, local, "none"))
         /\ audit' = Audited(audit, task.session_id,
                             IF task.op = "engage" THEN 1 ELSE 0, 0, "none")

\* engage from its first line to the call of the Response Generator, or, in
\* the termination branch, to the POST
EngageBegin ==
    \E t \in DOMAIN loop.tasks :
        \E task \in {loop.tasks[t]} :
            /\ task.op = "engage" /\ task.pc = "start" /\ loop.running = 0
            /\ IF InvalidInput(task.session_id, task.user_input)
               THEN /\ Reached(t, task, "done", loop.orphans,
                               Engage(sessions, task.session_id, task.user_input,
                                      H_NONE, task.gen, TRUE, task.outcome).ret)
                    /\ UNCHANGED <<sessions, audit>>
               ELSE \E seeded \in {Touch(GetOrCreateSession(sessions, task.session_id,
                                                            now)[task.session_id])} :
                        IF CheckTermination(task.user_input, seeded)
                        THEN \E r \in {EngageTerminating(seeded, task.user_input, TRUE,
                                                         "exception")} :
                                 /\ sessions' = Put(sessions, task.session_id, r.session)
                                 /\ UpToPost(t, [task EXCEPT !.terminated = TRUE],
                                             r.session, r.session)
                        ELSE /\ sessions' = Put(sessions, task.session_id, seeded)
                             /\ Reached(t, task, "generating", loop.orphans, NoCall)
                             /\ audit' = Audited(audit, task.session_id, 0, 0, "none")
            /\ UNCHANGED <<settings, now, ncalls, probe>>

\* engage from the return of the Response Generator to the POST: the session
\* update goes to the dict the handler holds, the callback step looks the
\* session up by id again
EngageResume ==
    \E t \in DOMAIN loop.tasks :
        \E task \in {loop.tasks[t]} :
            /\ task.op = "engage" /\ task.pc = "generating" /\ loop.running \in {0, t}
            /\ \E r \in {EngageGenerating(Obj(sessions, loop.orphans, task.session_id,
                                              task.ref),
                                          task.user_input, task.gen, TRUE, "exception")} :
                   \E w \in {WriteObj(sessions, loop.orphans, task.session_id, task.ref,
                                      r.session)} :
                       \E store \in {GetOrCreateSession(w.store, task.session_id, now)} :
                           /\ sessions' = store
                           /\ IF WouldPost(r.session, store[task.session_id])
                              THEN Reached(t, [task EXCEPT !.cbref = 0], "posting",
                                           w.orphans, NoCall)
                              ELSE Reached(t, task, "done", w.orphans,
                                           TaskReturn(task, r.session, "none"))
                           /\ audit' = Audited(audit, task.session_id,
                                               IF WouldPost(r.session,
                                                            store[task.session_id])
                                               THEN 0 ELSE 1, 0, "none")
            /\ UNCHANGED <<settings, now, ncalls, probe>>

\* terminate_session from its first line to the POST
TerminateBegin ==
    \E t \in DOMAIN loop.tasks :
        \E task \in {loop.tasks[t]} :
            /\ task.op = "terminate_session" /\ task.pc = "start" /\ loop.running = 0
            /\ \E marked \in {[GetOrCreateSession(sessions, task.session_id,
                                                  now)[task.session_id]
                                  EXCEPT !.terminated = TRUE]} :
                   /\ sessions' = Put(sessions, task.session_id, marked)
                   /\ UpToPost(t, [task EXCEPT !.terminated = TRUE], marked, marked)
            /\ UNCHANGED <<settings, now, ncalls, probe>>

\* the endpoint answers the POST of a handler: send_final_callback sets
\* callback_sent on the dict it holds and the handler returns
PostReturns ==
    \E t \in DOMAIN loop.tasks :
        \E task \in {loop.tasks[t]} :
            /\ task.pc = "posting" /\ loop.running \in {0, t}
            /\ \E post \in {IF task.outcome = "ok" THEN "ok" ELSE "failed"} :
                   \E w \in {WriteObj(sessions, loop.orphans, task.session_id, task.cbref,
                                      Posted(Obj(sessions, loop.orphans, task.session_id,
                                                 task.cbref), task.outcome))} :
                       /\ sessions' = w.store
                       /\ Reached(t, [task EXCEPT !.post = post], "done", w.orphans,
                                  TaskReturn(task,
                                             Obj(w.store, w.orphans, task.session_id,
                                                 task.ref), post))
                       /\ audit' = Audited(audit, task.session_id,
                                           IF task.op = "engage" THEN 1 ELSE 0, 0, post)
            /\ UNCHANGED <<settings, now, ncalls, probe>>

\* the number of dicts of the id removed from the store so far
Removals(orphans, session_id) ==
    Cardinality({k \in DOMAIN orphans : k[1] = session_id})

\* a suspended task after a sweep that removed the ids in removed: what it
\* held in the store it now holds outside of it
Orphaned(task, removed, orphans) ==
    IF task.pc \in {"generating", "posting"} /\ task.session_id \in removed
    THEN [task EXCEPT
             !.ref = IF @ = 0 THEN Removals(orphans, task.session_id) + 1 ELSE @,
             !.cbref = IF @ = 0 /\ task.pc = "posting"
                       THEN Removals(orphans, task.session_id) + 1 ELSE @]
    ELSE task

\* the ids among removed whose dict a suspended task holds
HeldIds(tasks, removed) ==
    {tasks[i].session_id : i \in {j \in DOMAIN tasks : Orphaned(tasks[j], removed, <<>>) # tasks[j]}}

\* the sweep of the shutdown handler: clear_old_sessions(max_age_seconds=0)
SweepStep ==
    \E t \in DOMAIN loop.tasks :
        \E task \in {loop.tasks[t]} :
            /\ task.op = "clear_old_sessions" /\ task.pc = "start" /\ loop.running = 0
            /\ \E r \in {ClearOldSessions(sessions, task.max_age_seconds)},
                  removed \in {Expired(sessions, task.max_age_seconds)} :
                   /\ sessions' = r.store
                   /\ lastCall' = r.ret
                   /\ audit' = [sid \in DOMAIN r.store |-> audit[sid]]
                   /\ loop' =
                        [tasks |-> [i \in DOMAIN loop.tasks |->
                                       IF i = t THEN [task EXCEPT !.pc = "done"]
                                       ELSE Orphaned(loop.tasks[i], removed, loop.orphans)],
                         running |-> 0,
                         orphans |->
                             IF HeldIds(loop.tasks, removed) = {} THEN loop.orphans
                             ELSE [k \in {<<sid, Removals(loop.orphans, sid) + 1>> :
                                              sid \in HeldIds(loop.tasks, removed)} |->
                                      sessions[k[1]]] @@ loop.orphans]
            /\ UNCHANGED <<settings, now, ncalls, probe>>

LoopNext ==
    \/ Arrive
    \/ EngageBegin
    \/ EngageResume
    \/ TerminateBegin
    \/ PostReturns
    \/ SweepStep
    \/ Tick

LoopSpec == Init /\ [][LoopNext]_vars

(***************************************************************************)
(* The end-to-end scenario: the three utterances are given in turn to one  *)
(* session under the default settings, whatever the Response Generator,    *)
(* the EntityExtractor and the callback endpoint do.                       *)
(***************************************************************************)
ScenarioScript == <<E2E_TURN_1, E2E_TURN_2, E2E_TURN_3>>

ScenarioInit ==
    /\ sessions = <<>>
    /\ settings = DefaultSettings
    /\ now = 0
    /\ ncalls = 0
    /\ audit = <<>>
    /\ lastCall = NoCall
    /\ probe = NoProbe
    /\ loop = NoLoop

ScenarioTurn ==
    \E session_id \in ProperSessionIds, gen \in ScenarioGeneratorOutcomes,
       extractorAvailable \in BOOLEAN, outcome \in PostOutcomes :
        /\ ncalls < Len(ScenarioScript)
        /\ \E r \in {Engage(sessions, session_id, ScenarioScript[ncalls + 1], H_NONE,
                           gen, extractorAvailable, outcome)} :
               /\ sessions' = r.store
               /\ lastCall' = Observed(r.ret, gen)
               /\ ncalls' = ncalls + 1
               /\ audit' = Audited(audit, session_id, 1, r.seeded_turns, r.ret.post)
               /\ UNCHANGED <<settings, now, probe, loop>>

ScenarioNext == ScenarioTurn \/ Tick

ScenarioSpec == ScenarioInit /\ [][ScenarioNext]_vars

(***************************************************************************)
(* The store under sweeps: turns on two sessions, lookups, the clock,      *)
(* clear_old_sessions with any threshold and the shutdown handler.         *)
(***************************************************************************)
\* the record of a clear_old_sessions call with the threshold it was given
Swept(ret, max_age_seconds) == [ret EXCEPT !.max_age_seconds = max_age_seconds]

\* shutdown_event: the sweep with threshold 0; it returns nothing
ShutdownEvent(store) ==
    [store |-> ClearOldSessions(store, SHUTDOWN_MAX_AGE).store,
     ret |-> [NoCall EXCEPT !.op = "shutdown_event"]]

SweepEngage ==
    \E session_id \in SweepSessionIds, user_input \in {U_UPI, U_STOP} :
        /\ ncalls < MaxCalls
        /\ \E r \in {Engage(sessions, session_id, user_input, H_NONE, G_OK, TRUE,
                           "status")} :
               /\ sessions' = r.store
               /\ lastCall' = Observed(r.ret, G_OK)
               /\ ncalls' = ncalls + 1
               /\ audit' = Audited(audit, session_id, 1, r.seeded_turns, r.ret.post)
               /\ UNCHANGED <<settings, now, probe, loop>>

SweepLookup ==
    \E session_id \in SweepSessionIds :
        \E r \in {GetSessionInfo(sessions, session_id)} :
            /\ sessions' = r.store
            /\ lastCall' = r.ret
            /\ audit' = Audited(audit, session_id, 0, 0, "none")
            /\ UNCHANGED <<settings, now, ncalls, probe, loop>>

SweepAction ==
    \E max_age_seconds \in MaxAgeInputs :
        \E r \in {ClearOldSessions(sessions, max_age_seconds)} :
            /\ sessions' = r.store
            /\ lastCall' = Swept(r.ret, max_age_seconds)
            /\ audit' = [sid \in DOMAIN r.store |-> audit[sid]]
            /\ UNCHANGED <<settings, now, ncalls, probe, loop>>

ShutdownAction ==
    \E r \in {ShutdownEvent(sessions)} :
        /\ sessions' = r.store
        /\ lastCall' = r.ret
        /\ audit' = [sid \in DOMAIN r.store |-> audit[sid]]
        /\ UNCHANGED <<settings, now, ncalls, probe, loop>>

SweepNext == SweepEngage \/ SweepLookup \/ SweepAction \/ ShutdownAction \/ Tick

SweepSpec == Init /\ [][SweepNext]_vars

(***************************************************************************)
(* Seeding: engage calls that supply a conversation_history, under a       *)
(* memory window of 2 and of 0.                                            *)
(***************************************************************************)
\* the record of an engage call with the conversation_history it was given
Supplied(ret, conversation_history) ==
    [ret EXCEPT !.conversation_history = conversation_history]

SeedInit ==
    /\ sessions = <<>>
    /\ settings \in SeedConfigurations
    /\ now = 0
    /\ ncalls = 0
    /\ audit = <<>>
    /\ lastCall = NoCall
    /\ probe = NoProbe
    /\ loop = NoLoop

SeedEngage ==
    \E session_id \in ProperSessionIds, user_input \in {U_UPI, U_ORG},
       conversation_history \in SeedHistoryInputs :
        /\ ncalls < MaxCalls
        /\ \E r \in {Engage(sessions, session_id, user_input, conversation_history,
                           G_OK, TRUE, "status")} :
               /\ sessions' = r.store
               /\ lastCall' = Supplied(Observed(r.ret, G_OK), conversation_history)
               /\ ncalls' = ncalls + 1
               /\ audit' = Audited(audit, session_id, 1, r.seeded_turns, r.ret.post)
               /\ UNCHANGED <<settings, now, probe, loop>>

SeedNext == SeedEngage \/ GetSessionInfoAction \/ Tick

SeedSpec == SeedInit /\ [][SeedNext]_vars

(***************************************************************************)
(* The payload of the final callback (send_final_callback).  Of the        *)
(* payload's fields the model keeps the session id, the message count and  *)
(* the four lists built from the session's extracted items.                *)
(***************************************************************************)
\* re.fullmatch(r"\d{9,18}", str(v))
LooksLikeAccount(v) ==
    /\ Len(v) >= 9
    /\ Len(v) <= 18
    /\ \A i \in DOMAIN v : IsDigit(v[i])

\* the values of the session's items whose type is in kinds, empty values
\* skipped, in the order the items were extracted
ValuesOfKinds(session, kinds) ==
    LET F[i \in 0..Len(session.extracted_info)] ==
            IF i = 0 THEN <<>>
            ELSE IF /\ session.extracted_info[i].type \in kinds
                    /\ session.extracted_info[i].value # <<>>
                 THEN Append(F[i - 1], session.extracted_info[i].value)
                 ELSE F[i - 1]
    IN  F[Len(session.extracted_info)]

\* the values that end up in bank_accounts: those of account items, and those
\* of items of no listed kind that consist of 9 to 18 digits
BankAccountValues(session) ==
    LET F[i \in 0..Len(session.extracted_info)] ==
            IF i = 0 THEN <<>>
            ELSE IF /\ session.extracted_info[i].value # <<>>
                    /\ \/ session.extracted_info[i].type = "account"
                       \/ /\ session.extracted_info[i].type \notin {"upi", "phone", "url"}
                          /\ LooksLikeAccount(session.extracted_info[i].value)
                 THEN Append(F[i - 1], session.extracted_info[i].value)
                 ELSE F[i - 1]
    IN  F[Len(session.extracted_info)]

\* variant: the values are collected in lists, not in sets
ListsOfAll(values) == {values}

\* list(set(values)): the lists that hold every value once; a set's iteration
\* order is not fixed, so every order is possible
ListsOfSet(values) ==
    {f \in [1..Cardinality(Range(values)) -> Range(values)] :
        \A i, j \in DOMAIN f : i # j => f[i] # f[j]}

\* the payloads send_final_callback can POST for a session
Payloads(session_id, session) ==
    {[sessionId |-> session_id,
      totalMessagesExchanged |-> session.turn_count,
      bankAccounts |-> b, upiIds |-> u, phishingLinks |-> l, phoneNumbers |-> p] :
        b \in ListsOfSet(BankAccountValues(session)),
        u \in ListsOfSet(ValuesOfKinds(session, {"upi"})),
        l \in ListsOfSet(ValuesOfKinds(session, {"url"})),
        p \in ListsOfSet(ValuesOfKinds(session, {"phone"}))}

\* the record of a call with the payload it POSTed, if it made a POST; the
\* payload reads the session as the call leaves it, callback_sent apart
Reported(ret, store) ==
    IF ret.post = "none" THEN {ret}
    ELSE {[ret EXCEPT !.payload = payload] :
              payload \in Payloads(ret.session_id, store[ret.session_id])}

PayloadEngage ==
    \E session_id \in ProperSessionIds, user_input \in {U_UPI, U_PAYEE, U_STOP},
       extractorAvailable \in BOOLEAN, outcome \in PostOutcomes :
        /\ ncalls < MaxCalls
        /\ \E r \in {Engage(sessions, session_id, user_input, H_NONE,
                           G_OK, extractorAvailable, outcome)} :
               /\ sessions' = r.store
               /\ lastCall' \in Reported(Observed(r.ret, G_OK), r.store)
               /\ ncalls' = ncalls + 1
               /\ audit' = Audited(audit, session_id, 1, r.seeded_turns, r.ret.post)
               /\ UNCHANGED <<settings, now, probe, loop>>

PayloadSend ==
    \E session_id \in ProperSessionIds, outcome \in PostOutcomes :
        \E r \in {SendFinalCallbackCall(sessions, session_id, outcome)} :
            /\ sessions' = r.store
            /\ lastCall' \in Reported(r.ret, r.store)
            /\ audit' = Audited(audit, session_id, 0, 0, r.ret.post)
            /\ UNCHANGED <<settings, now, ncalls, probe, loop>>

PayloadNext == PayloadEngage \/ PayloadSend \/ Tick

PayloadSpec == Init /\ [][PayloadNext]_vars

(***************************************************************************)
(* Turns whose extraction may find the EntityExtractor unusable.           *)
(***************************************************************************)
\* the record of an engage call with what became of the EntityExtractor
Extracting(ret, extractorAvailable) ==
    [ret EXCEPT !.extractor = IF extractorAvailable THEN "ok" ELSE "failed"]

FailureEngage ==
    \E session_id \in ProperSessionIds, user_input \in {U_STOP, U_PAYEE, U_ORG},
       gen \in GeneratorOutcomes, extractorAvailable \in BOOLEAN,
       outcome \in PostOutcomes :
        /\ ncalls < MaxCalls
        /\ \E r \in {Engage(sessions, session_id, user_input, H_NONE,
                           gen, extractorAvailable, outcome)} :
               /\ sessions' = r.store
               /\ lastCall' = Extracting(Observed(r.ret, gen), extractorAvailable)
               /\ ncalls' = ncalls + 1
               /\ audit' = Audited(audit, session_id, 1, r.seeded_turns, r.ret.post)
               /\ UNCHANGED <<settings, now, probe, loop>>

FailureNext == FailureEngage \/ Tick

FailureSpec == Init /\ [][FailureNext]_vars

(***************************************************************************)
(* Terminating turns, with callbacks enabled and disabled.                 *)
(***************************************************************************)
\* an environment that turns the callback off
CallbacksOffSettings == [LowThresholdSettings EXCEPT !.GUVI_CALLBACK_ENABLED = FALSE]

TerminationInit ==
    /\ sessions = <<>>
    /\ settings \in {LowThresholdSettings, CallbacksOffSettings}
    /\ now = 0
    /\ ncalls = 0
    /\ audit = <<>>
    /\ lastCall = NoCall
    /\ probe = NoProbe
    /\ loop = NoLoop

TerminationSpec == TerminationInit /\ [][PayloadNext]_vars

(***************************************************************************)
(* Turns, manual terminations and direct send_final_callback calls, with   *)
(* callbacks enabled and disabled.                                         *)
(***************************************************************************)
ManualNext == PayloadEngage \/ TerminateSessionAction \/ PayloadSend \/ Tick

ManualSpec == TerminationInit /\ [][ManualNext]_vars

(***************************************************************************)
(* The generation context (_build_conversation_context): the prompt string *)
(* and the role-tagged message list handed to the Response Generator.      *)
(***************************************************************************)
SYSTEM_PROMPT ==
    <<"Y","o","u"," ","a","r","e"," ","a"," ","c","o","o","p","e","r","a","t","i","v","e"," ","e",
      "l","d","e","r","l","y"," ","p","e","r","s","o","n"," ","w","h","o"," ","i","s"," ","s","l",
      "i","g","h","t","l","y"," ","c","o","n","f","u","s","e","d"," ","b","u","t"," ","w","i","l",
      "l","i","n","g"," ","t","o"," ","h","e","l","p","."," ","N","e","v","e","r"," ","a","s","k",
      " ","f","o","r"," ","O","T","P",","," ","p","a","s","s","w","o","r","d","s",","," ","c","r",
      "e","d","i","t"," ","c","a","r","d"," ","n","u","m","b","e","r","s",","," ","o","r"," ","b",
      "a","n","k"," ","a","c","c","o","u","n","t"," ","d","e","t","a","i","l","s","."," ","N","e",
      "v","e","r"," ","p","r","o","v","i","d","e"," ","r","e","a","l"," ","p","e","r","s","o","n",
      "a","l"," ","i","n","f","o","r","m","a","t","i","o","n"," ","l","i","k","e"," ","a","d","d",
      "r","e","s","s","e","s",","," ","r","e","a","l"," ","p","h","o","n","e"," ","n","u","m","b",
      "e","r","s",","," ","o","r"," ","f","i","n","a","n","c","i","a","l"," ","d","a","t","a",".",
      " ","E","n","g","a","g","e"," ","n","a","t","u","r","a","l","l","y"," ","w","i","t","h"," ",
      "t","h","e"," ","c","a","l","l","e","r"," ","w","h","i","l","e"," ","s","u","b","t","l","y",
      " ","e","x","t","r","a","c","t","i","n","g"," ","i","n","f","o","r","m","a","t","i","o","n",
      " ","t","h","e","y"," ","v","o","l","u","n","t","e","e","r"," ","(","p","h","o","n","e"," ",
      "n","u","m","b","e","r","s",","," ","o","r","g","a","n","i","z","a","t","i","o","n"," ","n",
      "a","m","e","s",","," ","p","a","y","m","e","n","t"," ","m","e","t","h","o","d","s",")",".",
      " ","K","e","e","p"," ","r","e","s","p","o","n","s","e","s"," ","s","h","o","r","t"," ","(",
      "2","-","3"," ","s","e","n","t","e","n","c","e","s",")",","," ","n","a","t","u","r","a","l",
      ","," ","a","n","d"," ","s","l","i","g","h","t","l","y"," ","h","e","s","i","t","a","n","t",
      ".">>

\* "\n".join(lines)
RECURSIVE JoinLines(_)
JoinLines(lines) ==
    IF lines = <<>> THEN <<>>
    ELSE IF Len(lines) = 1 THEN lines[1]
    ELSE lines[1] \o <<"\n">> \o JoinLines(Tail(lines))

\* the two prompt lines of a Turn
RECURSIVE TurnLines(_)
TurnLines(turns) ==
    IF turns = <<>> THEN <<>>
    ELSE << <<"U","s","e","r",":"," ">> \o turns[1].user,
            <<"A","s","s","i","s","t","a","n","t",":"," ">> \o turns[1].assistant >>
         \o TurnLines(Tail(turns))

\* the two messages of a Turn
RECURSIVE TurnMessages(_)
TurnMessages(turns) ==
    IF turns = <<>> THEN <<>>
    ELSE << [role |-> "user", content |-> turns[1].user],
            [role |-> "assistant", content |-> turns[1].assistant] >>
         \o TurnMessages(Tail(turns))

\* _build_conversation_context on the session that holds the history
BuildConversationContext(session, user_input) ==
    [prompt |->
         JoinLines(<< <<"S","y","s","t","e","m",":"," ">> \o SYSTEM_PROMPT >>
                   \o TurnLines(LastN(session.history, settings.AGENT_MAX_MEMORY_TURNS))
                   \o << <<"U","s","e","r",":"," ">> \o user_input,
                          <<"A","s","s","i","s","t","a","n","t",":">> >>),
     messages |->
         << [role |-> "system", content |-> SYSTEM_PROMPT] >>
         \o TurnMessages(LastN(session.history, settings.AGENT_MAX_MEMORY_TURNS))
         \o << [role |-> "user", content |-> user_input] >>]

\* the record of an engage call with the context it built, if it took the
\* generation branch; seeded is the session after the seeding step
WithContext(ret, seeded, user_input) ==
    IF ret.generated
    THEN [ret EXCEPT !.context = BuildConversationContext(seeded, user_input)]
    ELSE ret

ContextEngage ==
    \E session_id \in ProperSessionIds, user_input \in {U_UPI, U_ORG, U_STOP},
       conversation_history \in SeedHistoryInputs :
        /\ ncalls < MaxCalls
        /\ \E r \in {Engage(sessions, session_id, user_input, conversation_history,
                           G_OK, TRUE, "status")} :
               /\ sessions' = r.store
               /\ lastCall' = WithContext(
                                  Supplied(Observed(r.ret, G_OK), conversation_history),
                                  SeedHistory(GetOrCreateSession(sessions, session_id,
                                                                 now)[session_id],
                                              conversation_history),
                                  user_input)
               /\ ncalls' = ncalls + 1
               /\ audit' = Audited(audit, session_id, 1, r.seeded_turns, r.ret.post)
               /\ UNCHANGED <<settings, now, probe, loop>>

ContextNext == ContextEngage \/ Tick

ContextSpec == SeedInit /\ [][ContextNext]_vars

(***************************************************************************)
(* Session ids used again after a sweep.  probe.arg remembers, for each id *)
(* a sweep removed and no call has used since, the session as it was       *)
(* removed; after an engage call on such an id probe.fn is "reuse" and     *)
(* probe.result is the removed session.                                    *)
(***************************************************************************)
\* the remembered sessions without session_id
Forget(swept, session_id) ==
    IF DOMAIN swept \ {session_id} = {} THEN <<>>
    ELSE [sid \in DOMAIN swept \ {session_id} |-> swept[sid]]

\* the remembered sessions with the ones in ids, taken from store
Remember(swept, store, ids) ==
    IF DOMAIN swept \cup ids = {} THEN <<>>
    ELSE [sid \in DOMAIN swept \cup ids |->
             IF sid \in ids THEN store[sid] ELSE swept[sid]]

ReuseEngage ==
    \E session_id \in SweepSessionIds, user_input \in {U_UPI, U_STOP},
       outcome \in PostOutcomes :
        /\ ncalls < MaxCalls
        /\ \E r \in {Engage(sessions, session_id, user_input, H_NONE, G_OK, TRUE,
                           outcome)} :
               /\ sessions' = r.store
               /\ lastCall' = Observed(r.ret, G_OK)
               /\ ncalls' = ncalls + 1
               /\ audit' = Audited(audit, session_id, 1, r.seeded_turns, r.ret.post)
               /\ probe' = IF session_id \in DOMAIN probe.arg
                           THEN [fn |-> "reuse", arg |-> Forget(probe.arg, session_id),
                                 result |-> probe.arg[session_id], done |-> FALSE]
                           ELSE [NoProbe EXCEPT !.arg = probe.arg]
               /\ UNCHANGED <<settings, now, loop>>

ReuseSweep ==
    \E max_age_seconds \in MaxAgeInputs :
        \E r \in {ClearOldSessions(sessions, max_age_seconds)} :
            /\ sessions' = r.store
            /\ lastCall' = Swept(r.ret, max_age_seconds)
            /\ audit' = [sid \in DOMAIN r.store |-> audit[sid]]
            /\ probe' = [NoProbe EXCEPT
                            !.arg = Remember(probe.arg, sessions,
                                             Expired(sessions, max_age_seconds))]
            /\ UNCHANGED <<settings, now, ncalls, loop>>

ReuseNext == ReuseEngage \/ ReuseSweep \/ Tick

ReuseSpec == Init /\ [][ReuseNext]_vars

(***************************************************************************)
(* The honeypot handler's conversion of conversationHistory on its own: it *)
(* is applied to every list of up to MaxMessages messages whose sender is  *)
(* "scammer", "user" or another string (the request schema takes any       *)
(* string as sender and any non-empty text).                               *)
(***************************************************************************)
\* four messages are the fewest that make two complete turns
MaxMessages == 4

HoneypotMessages ==
    {[sender |-> s, text |-> t] : s \in {"scammer", "user", "bot"},
                                  t \in {<<"a">>, <<"b">>}}

MessageLists == UNION {[1..n -> HoneypotMessages] : n \in 0..MaxMessages}

ConvertInit ==
    /\ sessions = <<>>
    /\ settings \in Configurations
    /\ now = 0
    /\ ncalls = 0
    /\ audit = <<>>
    /\ lastCall = NoCall
    /\ probe \in {[fn |-> "agent_history", arg |-> msgs, result |-> <<>>,
                   done |-> FALSE] : msgs \in MessageLists}
    /\ loop = NoLoop

AgentHistoryAction ==
    /\ probe.fn = "agent_history"
    /\ ~probe.done
    /\ probe' = [probe EXCEPT !.result = AgentHistory(probe.arg), !.done = TRUE]
    /\ UNCHANGED <<sessions, settings, now, ncalls, audit, lastCall, loop>>

ConvertNext == AgentHistoryAction

ConvertSpec == ConvertInit /\ [][ConvertNext]_vars

(***************************************************************************)
(* Properties.                                                             *)
(***************************************************************************)
Live == DOMAIN sessions
\* the step is a call of op on session s that returned
Returned(op, s) ==
    /\ lastCall'.op = op
    /\ ~lastCall'.raised
    /\ lastCall'.session_id = s
\* the text contains a termination keyword, whatever the case of its letters
HasTerminationKeyword(text) ==
    \E k \in DOMAIN settings.AGENT_TERMINATION_KEYWORDS :
        Contains(Lower(text), settings.AGENT_TERMINATION_KEYWORDS[k])
LastTurn(session) == session.history[Len(session.history)]

\* C1 as stated: in every reachable state, for every session, turn_count
\* equals the number of Turns in the session's history.
C1_TurnCountIsHistoryLength ==
    \A s \in Live : sessions[s].turn_count = Len(sessions[s].history)

\* C1 amended: in every reachable state, for every session, turn_count equals
\* the number of Turns in the history that were not seeded from a
\* conversation_history (history length minus the seeded turns).
C1_TurnCountIsUnseededHistoryLength ==
    \A s \in Live :
        sessions[s].turn_count = Len(sessions[s].history) - audit[s].seeded_turns

\* a seeded session that has had two turns
C1_Witness ==
    \E s \in Live : audit[s].seeded_turns > 0 /\ sessions[s].turn_count = 2

\* C2: for every session turn_count equals the number of engage calls that
\* returned for it, and the turn_number an engage call returns is that count.
C2_TurnCountIsEngageReturns ==
    /\ \A s \in Live : sessions[s].turn_count = audit[s].engage_returns
    /\ (lastCall.op = "engage" /\ ~lastCall.raised)
          => /\ lastCall.session_id \in Live
             /\ lastCall.turn_number = audit[lastCall.session_id].engage_returns

\* a second engage call has returned through the termination branch after a
\* first one that generated a reply
C2_Witness ==
    /\ lastCall.op = "engage" /\ lastCall.terminated /\ lastCall.turn_number = 2
    /\ \E s \in Live : sessions[s].history[Len(sessions[s].history) - 1].assistant
                          # CLOSING_RESPONSE

\* C3 as stated: a session's callback report is sent once only, no call makes
\* a second POST for the session.
C3_ReportPostedOnce == \A s \in Live : audit[s].posts <= 1

\* C3 amended: at most one callback POST of a session is answered with a
\* success status, and once callback_sent is true no call makes another POST
\* for the session.
C3_NoPostAfterSuccess ==
    [][\A s \in Live :
           /\ (sessions[s].callback_sent /\ lastCall'.session_id = s)
                 => lastCall'.post = "none"
           /\ s \in DOMAIN audit' => audit'[s].acks <= 1]_vars

\* the callback was acknowledged in an earlier call, the trigger predicate
\* holds and the engage call just made posted nothing
C3_Witness ==
    \E s \in Live :
        /\ sessions[s].callback_sent /\ audit[s].acks = 1
        /\ ShouldTriggerCallback(sessions[s])
        /\ lastCall.op = "engage" /\ lastCall.session_id = s /\ lastCall.post = "none"

\* C4: no step makes callback_sent false again for a session that stays in
\* the store.
C4_CallbackSentMonotonic ==
    [][\A s \in Live \cap DOMAIN sessions' :
           sessions[s].callback_sent => sessions'[s].callback_sent]_vars

\* a send_final_callback call was made on a session whose callback had been
\* sent
C4_Witness ==
    \E s \in Live :
        /\ sessions[s].callback_sent
        /\ lastCall.op = "send_final_callback" /\ lastCall.session_id = s
        /\ lastCall.post = "none"

\* C5: callback_sent becomes true only in a step whose call on that session
\* made a POST that was answered with a success status.
C5_SentOnlyOnSuccess ==
    [][\A s \in DOMAIN sessions' :
           (sessions'[s].callback_sent /\ (s \in Live => ~sessions[s].callback_sent))
              => /\ lastCall'.session_id = s
                 /\ lastCall'.post = "ok"
                 /\ audit'[s].acks >= 1]_vars

\* the call just made had its POST acknowledged
C5_Witness ==
    \E s \in Live :
        sessions[s].callback_sent /\ lastCall.session_id = s /\ lastCall.post = "ok"

\* C6: a step whose POST failed leaves callback_sent false, and leaves the
\* whole session as it was when the call was send_final_callback itself; and
\* an engage turn on a session with a failed attempt and no success, after
\* which the trigger predicate holds, makes a new POST.
C6_FailedCallbackIsRetried ==
    [][\A s \in DOMAIN sessions' :
           /\ (lastCall'.session_id = s /\ lastCall'.post = "failed")
                 => /\ ~sessions'[s].callback_sent
                    /\ (lastCall'.op = "send_final_callback" /\ s \in Live)
                          => sessions'[s] = sessions[s]
           /\ (/\ Returned("engage", s)
               /\ s \in Live
               /\ audit[s].posts >= 1
               /\ ~sessions[s].callback_sent
               /\ ShouldTriggerCallback(sessions'[s]))
                 => lastCall'.post # "none"]_vars

\* an engage turn retried the callback after a failed attempt and succeeded
C6_Witness ==
    \E s \in Live :
        /\ audit[s].posts = 2 /\ audit[s].acks = 1
        /\ lastCall.op = "engage" /\ lastCall.session_id = s /\ lastCall.post = "ok"

\* C7: an engage call whose input contains a termination keyword, or whose
\* session is already terminated, leaves the session terminated, returns the
\* fixed closing utterance with terminated = true and does not call the
\* Response Generator.
C7_TerminationIsSticky ==
    [][\A s \in DOMAIN sessions' :
           (/\ Returned("engage", s)
            /\ \/ s \in Live /\ sessions[s].terminated
               \/ HasTerminationKeyword(LastTurn(sessions'[s]).user))
              => /\ sessions'[s].terminated
                 /\ lastCall'.terminated
                 /\ lastCall'.agent_response_text = CLOSING_RESPONSE
                 /\ LastTurn(sessions'[s]).assistant = CLOSING_RESPONSE
                 /\ ~lastCall'.generated]_vars

\* an engage call without a keyword was made on a session a keyword had
\* terminated
C7_Witness ==
    \E s \in Live :
        /\ sessions[s].turn_count = 2
        /\ HasTerminationKeyword(sessions[s].history[Len(sessions[s].history) - 1].user)
        /\ ~HasTerminationKeyword(LastTurn(sessions[s]).user)
        /\ lastCall.op = "engage" /\ lastCall.terminated

\* C8: no step changes terminated from true to false for a session that
\* stays in the store.
C8_TerminatedIsOneWay ==
    [][\A s \in Live \cap DOMAIN sessions' :
           sessions[s].terminated => sessions'[s].terminated]_vars

\* get_session_info was called on a terminated session
C8_Witness ==
    \E s \in Live :
        /\ sessions[s].terminated
        /\ lastCall.op = "get_session_info" /\ lastCall.session_id = s

\* C9: a rejected engage call leaves the session store as it was, and no
\* session with a blank id and no Turn with a blank user text ever exists.
C9_RejectedEngageChangesNothing ==
    /\ [][(lastCall'.op = "engage" /\ lastCall'.error = "ValueError")
             => (sessions' = sessions /\ audit' = audit)]_vars
    /\ [](\A s \in Live :
              /\ ~IsBlank(s)
              /\ \A i \in DOMAIN sessions[s].history :
                     ~IsBlank(sessions[s].history[i].user))

\* an engage call was rejected while the store held a session with a turn
C9_Witness ==
    /\ lastCall.op = "engage" /\ lastCall.error = "ValueError"
    /\ \E s \in Live : sessions[s].turn_count >= 1

\* C10 as stated: when a rule of the safety filter fires on a candidate, the
\* utterance the filter returns does not match that rule's pattern.
C10_OutputDoesNotMatchFiredRule ==
    (probe.done /\ FirstMatchingRule(probe.arg) > 0)
       => ~PatternSearch(SAFETY_PATTERNS[FirstMatchingRule(probe.arg)].pattern,
                         probe.result)

\* the candidate of the call just made: the generated reply, or the fixed
\* fallback when generation failed
LastCandidate ==
    IF lastCall.generator = "failed" THEN GENERATION_FALLBACK
    ELSE lastCall.generated_text
\* the turns of a session that engage appended (those after the seeded ones)
OwnTurns(s) ==
    SubSeq(sessions[s].history, audit[s].seeded_turns + 1, Len(sessions[s].history))

\* C11: after an engage call that did not terminate, the returned utterance
\* and the assistant text of the appended Turn are both the Safety Filter's
\* output for the candidate, and every Turn engage has appended holds a filter
\* output or the closing utterance.
C11_ReplyIsFilterOutput ==
    /\ (lastCall.op = "engage" /\ ~lastCall.raised /\ ~lastCall.terminated)
          => /\ lastCall.generator # "none"
             /\ lastCall.agent_response_text = ApplySafetyFilter(LastCandidate)
             /\ LastTurn(sessions[lastCall.session_id]).assistant
                    = ApplySafetyFilter(LastCandidate)
    /\ \A s \in Live : \A i \in DOMAIN OwnTurns(s) :
           \/ OwnTurns(s)[i].assistant = CLOSING_RESPONSE
           \/ \E c \in ReplyCandidates :
                  OwnTurns(s)[i].assistant = SafetyFilterTable[c]

\* the generator returned a reply asking for a PIN and the filter replaced it
C11_Witness ==
    /\ lastCall.op = "engage" /\ lastCall.generator = "ok"
    /\ PatternSearch(SAFETY_PATTERNS[3].pattern, lastCall.generated_text)
    /\ lastCall.agent_response_text = SAFETY_PATTERNS[3].fallback
    /\ LastTurn(sessions[lastCall.session_id]).assistant = SAFETY_PATTERNS[3].fallback

\* the last n elements of a sequence
Tail_(xs, n) == SubSeq(xs, Len(xs) - n + 1, Len(xs))
\* what the agent-local extractor gives for the user text of the last Turn
LastExtraction(session) == ExtractionTable[LastTurn(session).user][TRUE]

\* C17: an engage call in which the Response Generator failed returns
\* normally with the fixed fallback utterance and terminated = false, and the
\* turn is committed: the Turn with the fallback is appended, turn_count is
\* incremented, the extractor's items for the input are appended, and the
\* callback step ran (a POST was made exactly when the trigger predicate holds
\* and no callback had been sent).
C17_GenerationFailureIsNotFatal ==
    (lastCall.op = "engage" /\ lastCall.generator = "failed")
       => /\ ~lastCall.raised
          /\ ~lastCall.terminated
          /\ lastCall.agent_response_text = GENERATION_FALLBACK
          /\ LET s == sessions[lastCall.session_id]
                 a == audit[lastCall.session_id]
             IN  /\ a.engage_returns >= 1
                 /\ Len(s.history) = a.seeded_turns + a.engage_returns
                 /\ lastCall.turn_number = s.turn_count
                 /\ s.turn_count = a.engage_returns
                 /\ LastTurn(s).assistant = GENERATION_FALLBACK
                 /\ ~IsBlank(LastTurn(s).user)
                 /\ Len(s.extracted_info) >= Len(LastExtraction(s))
                 /\ Tail_(s.extracted_info, Len(LastExtraction(s))) = LastExtraction(s)
                 /\ lastCall.post = "ok" => s.callback_sent
                 /\ lastCall.post = "failed"
                       <=> (ShouldTriggerCallback(s) /\ ~s.callback_sent)
                 /\ lastCall.post # "none" => ShouldTriggerCallback(s)

\* the generator failed on the second turn of a session, on an input the
\* extractor finds something in, and the callback was posted
C17_Witness ==
    /\ lastCall.op = "engage" /\ lastCall.generator = "failed"
    /\ lastCall.turn_number = 2
    /\ lastCall.post = "ok"
    /\ LastExtraction(sessions[lastCall.session_id]) # <<>>

\* the kinds of the items extracted in a session
Kinds(session) ==
    {session.extracted_info[i].type : i \in DOMAIN session.extracted_info}
\* the callback-trigger predicate as the specification words it
TriggerPredicate(session) ==
    \/ session.terminated
    \/ session.turn_count > settings.AGENT_MAX_TURNS_FOR_CALLBACK
    \/ (Cardinality(Kinds(session)) >= 2
        /\ session.turn_count >= settings.AGENT_MIN_TURNS_FOR_CALLBACK)

\* C16: _should_trigger_callback is true exactly when the session is
\* terminated, or turn_count exceeds the maximum-turns threshold, or at least
\* two kinds were extracted and turn_count has reached the minimum-turns
\* threshold; and every engage turn, terminating or not, evaluates it: the turn
\* makes a callback POST exactly when it holds and no callback had been sent.
C16_TriggerPredicate ==
    /\ \A s \in Live : ShouldTriggerCallback(sessions[s]) <=> TriggerPredicate(sessions[s])
    /\ (lastCall.op = "engage" /\ ~lastCall.raised)
          => LET s == sessions[lastCall.session_id]
             IN  /\ lastCall.post = "ok" => (s.callback_sent /\ TriggerPredicate(s))
                 /\ lastCall.post = "failed" <=> (TriggerPredicate(s) /\ ~s.callback_sent)
                 /\ (lastCall.post = "none" /\ TriggerPredicate(s))
                       => audit[lastCall.session_id].acks >= 1

\* a non-terminating turn took turn_count over the maximum-turns threshold
\* with fewer than two kinds extracted, and the callback was posted
C16_Witness ==
    /\ lastCall.op = "engage" /\ ~lastCall.terminated /\ lastCall.post = "ok"
    /\ \E s \in Live :
           /\ sessions[s].turn_count > settings.AGENT_MAX_TURNS_FOR_CALLBACK
           /\ Cardinality(Kinds(sessions[s])) < 2

\* C20 as stated: the agent-local extractor applied to "pay to raju@upi or
\* call +919876543210" yields a upi item with value raju@upi and a phone item
\* with value +919876543210.
C20_ExampleYieldsUpiAndPhone ==
    (probe.done /\ probe.fn = "_extract_intelligence_from_input"
                /\ probe.arg.user_input = EXTRACTION_EXAMPLE)
       => /\ \E i \in DOMAIN probe.result :
                 probe.result[i].type = "upi" /\ probe.result[i].value = UPI_EXAMPLE
          /\ \E i \in DOMAIN probe.result :
                 probe.result[i].type = "phone" /\ probe.result[i].value = PHONE_EXAMPLE

\* the session s before the step, a session that does not exist yet being
\* one with nothing in it
Before(s) == IF s \in Live THEN sessions[s] ELSE NewSession(now)
\* the step appended one Turn to s (after seeding it, if its history was
\* empty), incremented its turn_count and updated last_active
Committed(s) ==
    /\ sessions'[s].turn_count = Before(s).turn_count + 1
    /\ sessions'[s].history # <<>>
    /\ Before(s).history # <<>>
          => SubSeq(sessions'[s].history, 1, Len(sessions'[s].history) - 1)
                = Before(s).history
    /\ sessions'[s].last_active = now
\* the step changed none of history, turn_count, terminated, extracted_info
Untouched(s) ==
    /\ sessions'[s].history = Before(s).history
    /\ sessions'[s].turn_count = Before(s).turn_count
    /\ sessions'[s].terminated = Before(s).terminated
    /\ sessions'[s].extracted_info = Before(s).extracted_info

\* C14 as stated: after every engage call, returned or raised, each session
\* either has the Turn appended and turn_count incremented (and last_active
\* updated) or has none of history, turn_count, terminated and extracted_info
\* changed.
C14_TurnCommitsOrNot ==
    [][lastCall'.op = "engage"
          => \A s \in DOMAIN sessions' : Committed(s) \/ Untouched(s)]_vars

\* C18 as stated: a callback failure is never surfaced by engage or
\* terminate_session (a call whose POST failed returns its normal result), and
\* the only error engage raises is the invalid-input error.
C18_OnlyInvalidInputIsRaised ==
    /\ (lastCall.op \in {"engage", "terminate_session"} /\ lastCall.post = "failed")
          => (~lastCall.raised /\ lastCall.error = "none")
    /\ (lastCall.op = "engage" /\ lastCall.raised) => lastCall.error = "ValueError"

\* the honeypot request of the step engaged the controller: engage was called
\* once, and when it returned the session of the request has one more turn
EngagedOnce(s) ==
    /\ lastCall'.engage_calls = 1
    /\ ~lastCall'.raised
          => /\ s \in DOMAIN sessions'
             /\ sessions'[s].turn_count = Before(s).turn_count + 1
             /\ lastCall'.agent_response_text = LastTurn(sessions'[s]).assistant
\* the honeypot request of the step did not reach engage: no session was
\* created or changed
NotEngaged == lastCall'.engage_calls = 0 /\ sessions' = sessions

\* the detector gave the call a scam probability (it refuses a text that is
\* empty or whitespace only before the classifier runs)
Scored(call) == ~(call.error = "ValueError" /\ call.engage_calls = 0)

\* C19 as stated: a honeypot request whose scam probability is below 0.7 is
\* answered with the fixed neutral text without engage being called and
\* without any session created or modified; one at or above 0.7 calls engage
\* exactly once.
C19_EngagedExactlyAtThreshold ==
    [][(lastCall'.op = "honeypot" /\ Scored(lastCall'))
          => /\ lastCall'.scam_probability < SCAM_THRESHOLD
                   => (NotEngaged /\ lastCall'.agent_response_text = NEUTRAL_REPLY)
             /\ lastCall'.scam_probability >= SCAM_THRESHOLD
                   => EngagedOnce(lastCall'.session_id)]_vars

\* C19 amended: below 0.7 the reply is the fixed neutral text, engage is not
\* called and no session is created or modified; at or above 0.7 engage is
\* called exactly once when DEMO_MODE is off, and when DEMO_MODE is on
\* engage_demo answers with a canned reply without calling engage or touching
\* the session store.
C19_EngagedAtThresholdUnlessDemo ==
    [][(lastCall'.op = "honeypot" /\ Scored(lastCall'))
          => /\ lastCall'.scam_probability < SCAM_THRESHOLD
                   => (NotEngaged /\ lastCall'.agent_response_text = NEUTRAL_REPLY)
             /\ (lastCall'.scam_probability >= SCAM_THRESHOLD /\ ~settings.DEMO_MODE)
                   => EngagedOnce(lastCall'.session_id)
             /\ (lastCall'.scam_probability >= SCAM_THRESHOLD /\ settings.DEMO_MODE)
                   => (NotEngaged
                       /\ lastCall'.agent_response_text
                             \in {DEMO_PAYMENT_REPLY, DEMO_ACCOUNT_REPLY,
                                  DEMO_DEFAULT_REPLY})]_vars

\* after a request below the threshold that created no session, a request
\* with probability exactly 0.7 ran the first turn of the session
C19_Witness ==
    /\ lastCall.op = "honeypot"
    /\ lastCall.scam_probability = SCAM_THRESHOLD
    /\ lastCall.engage_calls = 1
    /\ lastCall.turn_number = 1
    /\ ncalls = 2

(***************************************************************************)
(* Requests on the event loop (LoopSpec).                                  *)
(***************************************************************************)
\* the fields of the sessions a turn reads and writes, without the clock's
Fields(store) ==
    [s \in DOMAIN store |->
        [history |-> store[s].history, turn_count |-> store[s].turn_count,
         terminated |-> store[s].terminated,
         extracted_info |-> store[s].extracted_info,
         callback_sent |-> store[s].callback_sent]]

\* the store after the engage calls of the tasks, made one after the other
\* in the given order from the i-th on
RECURSIVE Serial(_, _, _, _)
Serial(store, tasks, order, i) ==
    IF i > Len(tasks) THEN store
    ELSE Serial(Engage(store, tasks[order[i]].session_id, tasks[order[i]].user_input,
                       H_NONE, tasks[order[i]].gen, TRUE, tasks[order[i]].outcome).store,
                tasks, order, i + 1)

\* the orders n calls can be made in
Orders(n) == {o \in [1..n -> 1..n] : \A i, j \in 1..n : i # j => o[i] # o[j]}

\* every request given to the loop was an engage request and has returned
AllEngagesDone ==
    \A t \in DOMAIN loop.tasks :
        loop.tasks[t].op = "engage" /\ loop.tasks[t].pc = "done"

\* C12: when the engage requests given to the loop have all returned, the
\* sessions are what the same calls leave when made one after the other in
\* some order: no turn of the history and no count is lost.
C12_TurnsAreSerializable ==
    AllEngagesDone =>
        \E o \in Orders(Len(loop.tasks)) :
            Fields(sessions) = Fields(Serial(<<>>, loop.tasks, o, 1))

\* two engage requests for one session were given to the loop, one that
\* terminates and one that generates; both returned and both turns are there
C12_Witness ==
    /\ Len(loop.tasks) = 2 /\ AllEngagesDone
    /\ loop.tasks[1].session_id = loop.tasks[2].session_id
    /\ loop.tasks[1].terminated /\ ~loop.tasks[2].terminated
    /\ ~BlankTable[loop.tasks[2].user_input]
    /\ Len(sessions[loop.tasks[1].session_id].history) = 2
    /\ sessions[loop.tasks[1].session_id].turn_count = 2

\* C13: whatever the order the engage and terminate_session requests of a
\* session are served in, at most one of the session's callback POSTs is
\* answered with a success status.
C13_OneAcknowledgedPostPerSession ==
    \A s \in DOMAIN sessions :
        s \in DOMAIN audit => audit[s].acks < 2

\* an engage and a terminate_session request for one session have both
\* returned, both had the trigger predicate hold, and exactly the first to run
\* its callback step made a POST, which the endpoint acknowledged
C13_Witness ==
    \E i, j \in DOMAIN loop.tasks :
        /\ loop.tasks[i].op = "engage" /\ loop.tasks[j].op = "terminate_session"
        /\ loop.tasks[i].session_id = loop.tasks[j].session_id
        /\ loop.tasks[i].pc = "done" /\ loop.tasks[j].pc = "done"
        /\ loop.tasks[i].terminated
        /\ {loop.tasks[i].post, loop.tasks[j].post} = {"ok", "none"}
        /\ loop.tasks[i].outcome = "ok" /\ loop.tasks[j].outcome = "ok"
        /\ loop.tasks[i].session_id \in DOMAIN audit
        /\ audit[loop.tasks[i].session_id].acks = 1

\* a task is between its lookup of the session and its last write to it
InFlight(task) == task.pc \in {"generating", "posting"}

\* C15: while a turn is in flight, the dict it holds is the one the store has
\* under the session id: no sweep has removed it.
C15_NoSweepUnderATurn ==
    \A t \in DOMAIN loop.tasks :
        InFlight(loop.tasks[t]) =>
            /\ loop.tasks[t].ref = 0
            /\ loop.tasks[t].session_id \in DOMAIN sessions

\* an engage turn waits for the Response Generator while a sweep request is
\* on the loop that would remove the turn's session if it ran now
C15_Witness ==
    \E t, w \in DOMAIN loop.tasks :
        /\ loop.tasks[t].op = "engage" /\ loop.tasks[t].pc = "generating"
        /\ loop.tasks[w].op = "clear_old_sessions" /\ loop.tasks[w].pc = "start"
        /\ loop.tasks[t].session_id \in Expired(sessions, loop.tasks[w].max_age_seconds)

(***************************************************************************)
(* The end-to-end scenario (ScenarioSpec).                                 *)
(***************************************************************************)
FRAUD_UPI == <<"f","r","a","u","d","@","u","p","i">>
\* the session holds a upi item with the scenario's handle
HasFraudUpi(session) ==
    \E i \in DOMAIN session.extracted_info :
        /\ session.extracted_info[i].type = "upi"
        /\ session.extracted_info[i].value = FRAUD_UPI

\* the scenario's session after its three turns, except for what the agent
\* said on turn 1
ScenarioOutcome(session) ==
    /\ session.terminated
    /\ session.turn_count = 3
    /\ HasFraudUpi(session)

\* C21 as stated: in the end-to-end scenario the upi item fraud@upi is there
\* from turn 2 on and not before, and after turn 3 the session is terminated
\* with turn_count 3, the reply of turn 1 matches no safety pattern and turn 3
\* made a callback attempt.
C21_EndToEndScenario ==
    \A s \in Live :
        /\ ncalls = 1 => ~HasFraudUpi(sessions[s])
        /\ ncalls = 2 => HasFraudUpi(sessions[s]) /\ audit[s].posts = 0
        /\ ncalls = 3 =>
               /\ ScenarioOutcome(sessions[s]) /\ audit[s].posts = 1
               /\ FirstMatchingRule(sessions[s].history[1].assistant) = 0

(***************************************************************************)
(* The safety filter's rule order (FilterSpec).                            *)
(***************************************************************************)
\* the rules whose pattern matches the text
MatchingRules(t) ==
    {r \in DOMAIN SAFETY_PATTERNS : PatternSearch(SAFETY_PATTERNS[r].pattern, t)}

\* the text has a run of 9 to 19 digits with no word character on either side
HasBareNumber(t) ==
    \E i, j \in 1..Len(t) :
        /\ (j - i + 1) \in 9..19
        /\ \A k \in i..j : IsDigit(t[k])
        /\ i = 1 \/ ~IsWord(t[i - 1])
        /\ j = Len(t) \/ ~IsWord(t[j + 1])

\* C22: the filter's result is the fallback of the matching rule that comes
\* first in the list; with no matching rule it is the numeric deflection when
\* the candidate has a bare number of 9 to 19 digits, and the candidate itself
\* otherwise; applying the filter to the same candidate again gives the same.
C22_FirstMatchingRuleDecides ==
    probe.done =>
        /\ probe.result = ApplySafetyFilter(probe.arg)
        /\ \A r \in MatchingRules(probe.arg) :
               (\A q \in MatchingRules(probe.arg) : r <= q)
                   => probe.result = SAFETY_PATTERNS[r].fallback
        /\ MatchingRules(probe.arg) = {} =>
               probe.result = IF HasBareNumber(probe.arg) THEN NUMERIC_LEAK_FALLBACK
                              ELSE probe.arg

\* the filter was applied to a candidate that the first and the third rule
\* match, and returned the first rule's fallback
C22_Witness ==
    /\ probe.done
    /\ {1, 3} \subseteq MatchingRules(probe.arg)
    /\ probe.result = SAFETY_PATTERNS[1].fallback
    /\ probe.result # SAFETY_PATTERNS[3].fallback

(***************************************************************************)
(* Sweeps (SweepSpec).                                                     *)
(***************************************************************************)
\* the sessions idle for longer than maxAge
IdleLongerThan(maxAge) == {s \in Live : now - sessions[s].last_active > maxAge}

\* a clear_old_sessions call removes exactly the sessions idle for longer
\* than its threshold, returns their number and leaves the others as they were
SweepIsExact ==
    lastCall'.op = "clear_old_sessions" =>
        /\ DOMAIN sessions' = Live \ IdleLongerThan(lastCall'.max_age_seconds)
        /\ lastCall'.removed = Cardinality(IdleLongerThan(lastCall'.max_age_seconds))
        /\ \A s \in DOMAIN sessions' : sessions'[s] = sessions[s]

\* C23 as stated: clear_old_sessions(maxAge) removes exactly the sessions idle
\* for longer than maxAge, returns their number and leaves the others as they
\* were, and the shutdown handler leaves no session in the store.
C23_SweepRemovesExpiredShutdownClearsAll ==
    [][/\ SweepIsExact
       /\ lastCall'.op = "shutdown_event" => sessions' = <<>>]_vars

\* C24: a lookup of an id the store does not have adds one new session with
\* empty history, turn_count 0, terminated false, no extracted items and the
\* callback not sent, and changes no other; a lookup of an id the store has
\* changes nothing; looking an id up twice gives what looking it up once gives.
C24_GetOrCreateIsIdempotent ==
    [][/\ \A s \in SweepSessionIds :
              GetOrCreateSession(GetOrCreateSession(sessions, s, now), s, now + 1)
                  = GetOrCreateSession(sessions, s, now)
       /\ lastCall'.op = "get_session_info" =>
              IF lastCall'.session_id \in Live THEN sessions' = sessions
              ELSE /\ DOMAIN sessions' = Live \cup {lastCall'.session_id}
                   /\ \A s \in Live : sessions'[s] = sessions[s]
                   /\ sessions'[lastCall'.session_id].history = <<>>
                   /\ sessions'[lastCall'.session_id].turn_count = 0
                   /\ sessions'[lastCall'.session_id].terminated = FALSE
                   /\ sessions'[lastCall'.session_id].extracted_info = <<>>
                   /\ sessions'[lastCall'.session_id].callback_sent = FALSE]_vars

\* a lookup was made of a session that had a turn, at a later clock reading
\* than the turn, while the store held another session as well
C24_Witness ==
    /\ lastCall.op = "get_session_info"
    /\ lastCall.session_id \in Live
    /\ lastCall.turn_number >= 1
    /\ sessions[lastCall.session_id].last_active < now
    /\ Cardinality(Live) = 2

\* a is an initial part of b
IsPrefix(a, b) == Len(a) <= Len(b) /\ SubSeq(b, 1, Len(a)) = a

\* C25: whatever is called, a session that stays in the store keeps its
\* history and its extracted_info as initial parts of the new ones: Turns
\* and items are only ever added at the end and never changed.
C25_HistoryAndItemsAppendOnly ==
    [][\A s \in Live \cap DOMAIN sessions' :
           /\ IsPrefix(sessions[s].history, sessions'[s].history)
           /\ IsPrefix(sessions[s].extracted_info, sessions'[s].extracted_info)]_vars

\* an engage call has just added a Turn and items to a session that already
\* had seeded Turns, a Turn of its own and items
C25_Witness ==
    \E s \in Live :
        /\ lastCall.op = "engage" /\ lastCall.session_id = s /\ ~lastCall.raised
        /\ audit[s].seeded_turns >= 1 /\ audit[s].engage_returns = 2
        /\ Len(sessions[s].history) > settings.AGENT_MAX_MEMORY_TURNS
        /\ Len(sessions[s].extracted_info) >= 2

(***************************************************************************)
(* Seeding from a supplied history (SeedSpec).                             *)
(***************************************************************************)
\* the two sides of an entry of a supplied history, under either pair of keys
Sides(item) ==
    Turn(OrElse(Get(item, "user"), Get(item, "content")),
         OrElse(Get(item, "assistant"), Get(item, "response")))

\* the Turns in seeded are entries of the supplied history, in its order
InOrderOf(seeded, supplied) ==
    \E f \in [DOMAIN seeded -> DOMAIN supplied] :
        /\ \A i, j \in DOMAIN seeded : i < j => f[i] < f[j]
        /\ \A i \in DOMAIN seeded : seeded[i] = Sides(supplied[f[i]])

\* what an engage call put into the history before its own Turn
SeededBy(old, new) == SubSeq(new, Len(old) + 1, Len(new) - 1)

\* the history of a session before a call, empty if the store has none
HistoryOf(s) == IF s \in Live THEN sessions[s].history ELSE <<>>

\* the seeding rule for a window of n Turns
SeedsAtMost(n) ==
    (lastCall'.op = "engage" /\ ~lastCall'.raised) =>
        \E seeded \in {SeededBy(HistoryOf(lastCall'.session_id),
                                sessions'[lastCall'.session_id].history)} :
            IF HistoryOf(lastCall'.session_id) # <<>> THEN seeded = <<>>
            ELSE /\ Len(seeded) <= n
                 /\ \A i \in DOMAIN seeded :
                        seeded[i].user # <<>> /\ seeded[i].assistant # <<>>
                 /\ InOrderOf(seeded, lastCall'.conversation_history)

\* C26 as stated: an engage call on a session with an empty history puts at
\* most N (the memory window) entries of the supplied history before its own
\* Turn, each with both sides non-empty and in their original order; on a
\* session with a non-empty history it puts none.
C26_SeedsAtMostWindow ==
    [][SeedsAtMost(settings.AGENT_MAX_MEMORY_TURNS)]_vars

(***************************************************************************)
(* The callback payload (PayloadSpec).                                     *)
(***************************************************************************)
\* how many times v occurs in the list xs
Occurrences(v, xs) == Cardinality({i \in DOMAIN xs : xs[i] = v})

\* the payload list each listed kind of item is reported in
ListOfKind(payload, kind) ==
    CASE kind = "upi" -> payload.upiIds
      [] kind = "phone" -> payload.phoneNumbers
      [] kind = "url" -> payload.phishingLinks
      [] kind = "account" -> payload.bankAccounts

\* the items of the session the last call reported on
ReportedItems == sessions[lastCall.session_id].extracted_info

\* C27: whenever a call POSTs the callback, every non-empty value of a upi,
\* phone, url or account item the session holds is in its kind's list of the
\* payload exactly once, and totalMessagesExchanged is the session's
\* turn_count.
C27_PayloadDeduplicatesByKind ==
    lastCall.post # "none" =>
        /\ \A i \in DOMAIN ReportedItems :
               (/\ ReportedItems[i].type \in {"upi", "phone", "url", "account"}
                /\ ReportedItems[i].value # <<>>)
               => Occurrences(ReportedItems[i].value,
                              ListOfKind(lastCall.payload, ReportedItems[i].type)) = 1
        /\ lastCall.payload.totalMessagesExchanged
               = sessions[lastCall.session_id].turn_count

\* a POST for a session that holds the same upi value in two items
C27_Witness ==
    /\ lastCall.post # "none"
    /\ \E i, j \in DOMAIN ReportedItems :
           /\ i < j
           /\ ReportedItems[i].type = "upi"
           /\ ReportedItems[j].type = "upi"
           /\ ReportedItems[i].value = ReportedItems[j].value
           /\ ReportedItems[i].value # <<>>
    /\ lastCall.payload.bankAccounts # <<>>
    /\ lastCall.payload.totalMessagesExchanged = 2

(***************************************************************************)
(* Turns on which the EntityExtractor fails (FailureSpec).                 *)
(***************************************************************************)
\* the session of the call the step makes, before and after it
TurnBefore == Before(lastCall'.session_id)
TurnAfter == sessions'[lastCall'.session_id]

\* the step is an engage call during which the EntityExtractor failed
ExtractorFailed == lastCall'.op = "engage" /\ lastCall'.extractor = "failed"

\* the turn is carried out whole: engage returns, one Turn for the input is
\* appended, turn_count goes up by one, and a POST is made exactly when the
\* callback predicate holds of the updated session, no callback was sent
\* before and callbacks are enabled
TurnCarriedOut ==
    /\ ~lastCall'.raised
    /\ Len(TurnAfter.history) = Len(TurnBefore.history) + 1
    /\ TurnAfter.turn_count = TurnBefore.turn_count + 1
    /\ lastCall'.turn_number = TurnAfter.turn_count
    /\ (lastCall'.post # "none") <=>
           /\ ShouldTriggerCallback(TurnAfter)
           /\ ~TurnBefore.callback_sent
           /\ settings.GUVI_CALLBACK_ENABLED

\* the items the step added to the session
AddedItems == SubSeq(TurnAfter.extracted_info, Len(TurnBefore.extracted_info) + 1,
                     Len(TurnAfter.extracted_info))

\* the utterance of the step's Turn
Uttered == TurnAfter.history[Len(TurnAfter.history)].user

\* the runs of 9 to 18 digits of t that stand between word boundaries
DigitRuns(t) ==
    {Slice(t, a, b) : <<a, b>> \in
        {<<a, b>> \in (1..Len(t)) \X (2..Len(t) + 1) :
            /\ b - a >= 9
            /\ b - a <= 18
            /\ \A i \in a..(b - 1) : IsDigit(t[i])
            /\ a = 1 \/ ~IsWord(t[a - 1])
            /\ b = Len(t) + 1 \/ ~IsWord(t[b])}}

\* C28 as stated: a turn during which the EntityExtractor fails is carried
\* out whole, and the failure is treated as no items found: the turn adds no
\* item to the session.
C28_ExtractorFailureFindsNothing ==
    [][ExtractorFailed => (TurnCarriedOut /\ AddedItems = <<>>)]_vars

\* C28, amended: a turn during which the EntityExtractor fails is carried out
\* whole on either branch; its items of the kinds other than account are
\* those found with the extractor at work, and its account items are the
\* runs of 9 to 18 digits of the utterance, at confidence 0.6.
C28_ExtractorFailureFallsBack ==
    [][ExtractorFailed =>
        /\ TurnCarriedOut
        /\ SelectSeq(AddedItems, LAMBDA it : it.type # "account")
               = SelectSeq(ExtractionTable[Uttered][TRUE],
                           LAMBDA it : it.type # "account")
        /\ \A i \in DOMAIN AddedItems :
               AddedItems[i].type = "account" => AddedItems[i].confidence = 60
        /\ {AddedItems[i].value : i \in {j \in DOMAIN AddedItems :
                                             AddedItems[j].type = "account"}}
               = DigitRuns(Uttered)]_vars

\* a generating turn whose utterance has a digit run and then a terminating
\* turn have been carried out, the extractor having failed on both
C28_Witness ==
    /\ lastCall.op = "engage"
    /\ lastCall.extractor = "failed"
    /\ ~lastCall.raised
    /\ lastCall.terminated
    /\ lastCall.turn_number = 2
    /\ sessions[lastCall.session_id].history[1].user = U_PAYEE
    /\ \E i \in DOMAIN sessions[lastCall.session_id].extracted_info :
           sessions[lastCall.session_id].extracted_info[i].confidence = 60

(***************************************************************************)
(* last_active (SweepSpec).                                                *)
(***************************************************************************)
\* the step is a sweep: clear_old_sessions, called directly or by shutdown_event
IsSweep == lastCall'.op \in {"clear_old_sessions", "shutdown_event"}

\* C29: every engage call that passes validation leaves the session's
\* last_active at the current time; last_active of a session never decreases
\* and is never earlier than created_at; and a sweep does not remove a session
\* that has had a turn when its max_age_seconds is larger than the time
\* elapsed since last_active.
C29_LastActiveFollowsTurns ==
    [][/\ (lastCall'.op = "engage" /\ lastCall'.error # "ValueError")
              => sessions'[lastCall'.session_id].last_active = now
       /\ \A s \in Live \cap DOMAIN sessions' :
              sessions'[s].last_active >= sessions[s].last_active
       /\ \A s \in DOMAIN sessions' :
              sessions'[s].last_active >= sessions'[s].created_at
       /\ IsSweep =>
              \A s \in Live :
                  (/\ sessions[s].turn_count > 0
                   /\ lastCall'.max_age_seconds > now - sessions[s].last_active)
                  => /\ s \in DOMAIN sessions'
                     /\ sessions'[s] = sessions[s]]_vars

\* a sweep with max_age_seconds 1 has left in place a session whose last turn
\* was later than its creation and is less than 1 old
C29_Witness ==
    /\ lastCall.op = "clear_old_sessions"
    /\ lastCall.max_age_seconds = 1
    /\ \E s \in Live :
           /\ sessions[s].turn_count > 0
           /\ sessions[s].last_active > sessions[s].created_at
           /\ now - sessions[s].last_active < 1

(***************************************************************************)
(* Terminating turns (TerminationSpec).                                    *)
(***************************************************************************)
\* the step is an engage call that takes the termination branch
IsTerminatingTurn ==
    /\ lastCall'.op = "engage"
    /\ ~lastCall'.raised
    /\ CheckTermination(Uttered, TurnBefore)

\* C30: a terminating turn appends the closing Turn, increments turn_count,
\* adds the items extracted from the input and sets terminated before it
\* evaluates the callback predicate: it makes a POST exactly when the
\* session's callback had not been sent and callbacks are enabled, the payload
\* of that POST counts the closing Turn and lists the upi values of the input,
\* and the result has terminated = true.
C30_TerminatingTurnOrder ==
    [][IsTerminatingTurn =>
        /\ TurnAfter.history = Append(TurnBefore.history, Turn(Uttered, CLOSING_RESPONSE))
        /\ TurnAfter.turn_count = TurnBefore.turn_count + 1
        /\ AddedItems \in {ExtractionTable[Uttered][x] : x \in BOOLEAN}
        /\ TurnAfter.terminated
        /\ lastCall'.terminated
        /\ lastCall'.agent_response_text = CLOSING_RESPONSE
        /\ lastCall'.turn_number = TurnAfter.turn_count
        /\ (lastCall'.post # "none")
               <=> (~TurnBefore.callback_sent /\ settings.GUVI_CALLBACK_ENABLED)
        /\ lastCall'.post # "none" =>
               /\ lastCall'.payload.totalMessagesExchanged = TurnBefore.turn_count + 1
               /\ \A i \in DOMAIN AddedItems :
                      (AddedItems[i].type = "upi" /\ AddedItems[i].value # <<>>)
                      => \E k \in DOMAIN lastCall'.payload.upiIds :
                             lastCall'.payload.upiIds[k] = AddedItems[i].value]_vars

\* the first turn of a session was a terminating one that made a POST, below
\* every threshold
C30_Witness ==
    /\ lastCall.op = "engage"
    /\ lastCall.terminated
    /\ lastCall.turn_number = 1
    /\ lastCall.post # "none"
    /\ lastCall.payload.totalMessagesExchanged = 1
    /\ ~ShouldTriggerCallback([sessions[lastCall.session_id] EXCEPT !.terminated = FALSE])

\* a terminating turn on an already terminated session whose callback had
\* failed made a POST that lists the upi value of its input
C30_WitnessItems ==
    /\ lastCall.op = "engage"
    /\ lastCall.terminated
    /\ lastCall.turn_number = 2
    /\ lastCall.post # "none"
    /\ lastCall.payload.upiIds # <<>>
    /\ sessions[lastCall.session_id].history[1].user = U_STOP
    /\ sessions[lastCall.session_id].history[2].user = U_PAYEE

(***************************************************************************)
(* Manual termination (ManualSpec).                                        *)
(***************************************************************************)
\* C31: terminate_session marks the session terminated, makes a POST exactly
\* when the session's callback had not been sent (and callbacks are enabled),
\* and leaves history, turn_count and extracted_info as they were; every
\* engage call on a terminated session takes the closing branch.
C31_ManualTermination ==
    [][/\ lastCall'.op = "terminate_session" =>
              /\ TurnAfter.terminated
              /\ lastCall'.terminated
              /\ TurnAfter.history = TurnBefore.history
              /\ TurnAfter.turn_count = TurnBefore.turn_count
              /\ TurnAfter.extracted_info = TurnBefore.extracted_info
              /\ (lastCall'.post # "none")
                     <=> (~TurnBefore.callback_sent /\ settings.GUVI_CALLBACK_ENABLED)
       /\ (lastCall'.op = "engage" /\ ~lastCall'.raised /\ TurnBefore.terminated) =>
              /\ lastCall'.terminated
              /\ ~lastCall'.generated
              /\ lastCall'.agent_response_text = CLOSING_RESPONSE
              /\ TurnAfter.terminated]_vars

\* a session that had an ordinary turn was terminated by terminate_session,
\* and its next turn, on an utterance without a termination keyword, took the
\* closing branch
C31_Witness ==
    /\ lastCall.op = "engage"
    /\ lastCall.terminated
    /\ lastCall.turn_number = 2
    /\ sessions[lastCall.session_id].history[1].assistant # CLOSING_RESPONSE
    /\ sessions[lastCall.session_id].history[2] = Turn(U_UPI, CLOSING_RESPONSE)

(***************************************************************************)
(* The generation context (ContextSpec).                                   *)
(***************************************************************************)
\* the last n entries of xs, none if n is 0
Window(xs, n) == SubSeq(xs, Max(1, Len(xs) - n + 1), Len(xs))

\* the history the last call built its context from: the session's history
\* without the Turn the call appended
ContextHistory ==
    SubSeq(sessions[lastCall.session_id].history, 1,
           Len(sessions[lastCall.session_id].history) - 1)

\* the text the last call was given
ContextInput ==
    sessions[lastCall.session_id].history[
        Len(sessions[lastCall.session_id].history)].user

\* the prompt line of a message
RoleLine(m) ==
    (CASE m.role = "system" -> <<"S","y","s","t","e","m">>
       [] m.role = "user" -> <<"U","s","e","r">>
       [] m.role = "assistant" -> <<"A","s","s","i","s","t","a","n","t">>)
    \o <<":"," ">> \o m.content

\* the messages are the persona instruction, the Turns of turns in order, and
\* the new user text
MessagesCarry(messages, turns, user_input) ==
    /\ Len(messages) = 2 * Len(turns) + 2
    /\ messages[1] = [role |-> "system", content |-> SYSTEM_PROMPT]
    /\ \A i \in DOMAIN turns :
           /\ messages[2 * i] = [role |-> "user", content |-> turns[i].user]
           /\ messages[2 * i + 1] = [role |-> "assistant", content |-> turns[i].assistant]
    /\ messages[Len(messages)] = [role |-> "user", content |-> user_input]

\* the prompt is the messages, one line each, and the line that opens the reply
PromptCarries(prompt, messages) ==
    prompt = JoinLines([i \in DOMAIN messages |-> RoleLine(messages[i])]
                       \o << <<"A","s","s","i","s","t","a","n","t",":">> >>)

\* C32 as stated: the context of a generating turn holds the persona
\* instruction, then only the last N Turns of the session's history (N the
\* memory window) in history order, then the new user text; and the prompt
\* string carries the same texts in the same order as the message list.
C32_ContextIsLastNTurns ==
    lastCall.generated =>
        /\ MessagesCarry(lastCall.context.messages,
                         Window(ContextHistory, settings.AGENT_MAX_MEMORY_TURNS),
                         ContextInput)
        /\ PromptCarries(lastCall.context.prompt, lastCall.context.messages)

(***************************************************************************)
(* organization items and the callback trigger (ConversationSpec).         *)
(***************************************************************************)
\* the session holds an organization item and an item of another kind
HasOrganizationAndAnother(session) ==
    /\ \E i \in DOMAIN session.extracted_info :
           session.extracted_info[i].type = "organization"
    /\ \E i \in DOMAIN session.extracted_info :
           session.extracted_info[i].type # "organization"

\* C33: a session that holds an organization item and an item of one other
\* kind, with turn_count at least AGENT_MIN_TURNS_FOR_CALLBACK, satisfies the
\* callback-trigger predicate, terminated or not: the engage call that leaves
\* it so makes a POST unless the session's callback was sent already.
C33_OrganizationCountsAsKind ==
    \A s \in Live :
        (/\ HasOrganizationAndAnother(sessions[s])
         /\ sessions[s].turn_count >= settings.AGENT_MIN_TURNS_FOR_CALLBACK)
        => /\ ShouldTriggerCallback(sessions[s])
           /\ (lastCall.op = "engage" /\ lastCall.session_id = s)
                  => (lastCall.post # "none" \/ audit[s].acks > 0)

\* a POST made for a session that is not terminated, has not exceeded the
\* maximum turns and holds an organization item and items of one other kind
C33_Witness ==
    /\ lastCall.op = "engage"
    /\ lastCall.post # "none"
    /\ ~sessions[lastCall.session_id].terminated
    /\ sessions[lastCall.session_id].turn_count <= settings.AGENT_MAX_TURNS_FOR_CALLBACK
    /\ HasOrganizationAndAnother(sessions[lastCall.session_id])
    /\ Cardinality(ExtractedTypes(sessions[lastCall.session_id])) = 2

(***************************************************************************)
(* The callback trigger over a session's lifetime (ManualSpec).            *)
(***************************************************************************)
\* C34: once the callback-trigger predicate is true of a session it is true
\* after every later engage or terminate_session call on it.
C34_TriggerIsMonotone ==
    [][\A s \in Live \cap DOMAIN sessions' :
           ShouldTriggerCallback(sessions[s]) => ShouldTriggerCallback(sessions'[s])]_vars

\* terminate_session was called on a session of which the predicate was true
\* already, through its two kinds of item and its two turns
C34_Witness ==
    /\ lastCall.op = "terminate_session"
    /\ sessions[lastCall.session_id].turn_count >= settings.AGENT_MIN_TURNS_FOR_CALLBACK
    /\ Cardinality(ExtractedTypes(sessions[lastCall.session_id])) >= 2
    /\ ShouldTriggerCallback(sessions[lastCall.session_id])

(***************************************************************************)
(* The Safety Filter applied to its own output (FilterSpec).               *)
(***************************************************************************)
\* C35: the Safety Filter is idempotent: applied to what it returned for a
\* candidate it returns the same text; each rule's fallback and the numeric
\* deflection are fixed points of the filter.
C35_FilterIsIdempotent ==
    /\ probe.done => ApplySafetyFilter(probe.result) = probe.result
    /\ \A r \in DOMAIN SAFETY_PATTERNS :
           ApplySafetyFilter(SAFETY_PATTERNS[r].fallback) = SAFETY_PATTERNS[r].fallback
    /\ ApplySafetyFilter(NUMERIC_LEAK_FALLBACK) = NUMERIC_LEAK_FALLBACK

\* the filter replaced a candidate by a fallback that a rule matches, and the
\* fallback is what the filter returns for it
C35_Witness ==
    /\ probe.done
    /\ probe.result # probe.arg
    /\ FirstMatchingRule(probe.result) > 0
    /\ ApplySafetyFilter(probe.result) = probe.result

(***************************************************************************)
(* Callbacks disabled (ManualSpec).                                        *)
(***************************************************************************)
\* C36: when GUVI_CALLBACK_ENABLED is off no call makes a POST and
\* callback_sent is false in every session, whatever turns, terminations and
\* send_final_callback calls occur.
C36_DisabledNeverPosts ==
    ~settings.GUVI_CALLBACK_ENABLED =>
        /\ lastCall.post = "none"
        /\ ~lastCall.callback_sent
        /\ \A s \in Live : ~sessions[s].callback_sent /\ audit[s].posts = 0

\* with callbacks off, send_final_callback was called for a terminated session
\* of two turns and two kinds of item
C36_Witness ==
    /\ ~settings.GUVI_CALLBACK_ENABLED
    /\ lastCall.op = "send_final_callback"
    /\ sessions[lastCall.session_id].terminated
    /\ sessions[lastCall.session_id].turn_count = 2
    /\ Cardinality(ExtractedTypes(sessions[lastCall.session_id])) >= 2

(***************************************************************************)
(* Session ids used again after a sweep (ReuseSpec).                       *)
(***************************************************************************)
\* the step is the first engage call on an id since a sweep removed its session
IsReuse ==
    /\ lastCall'.op = "engage"
    /\ ~lastCall'.raised
    /\ lastCall'.session_id \in DOMAIN probe.arg

\* C37: the first engage call on a session id after a sweep removed its
\* session acts as on an id never seen: the session it leaves holds this turn
\* alone, created now, terminated only if the utterance asks for it, and a
\* POST is made for it again if the trigger predicate holds, whatever the
\* removed session was.
C37_SweptIdStartsAnew ==
    [][IsReuse =>
        /\ lastCall'.session_id \notin Live
        /\ TurnAfter.turn_count = 1
        /\ lastCall'.turn_number = 1
        /\ TurnAfter.history = <<Turn(Uttered, lastCall'.agent_response_text)>>
        /\ TurnAfter.extracted_info = ExtractionTable[Uttered][TRUE]
        /\ TurnAfter.created_at = now
        /\ TurnAfter.terminated = CheckTermination(Uttered, NewSession(now))
        /\ lastCall'.terminated = TurnAfter.terminated
        /\ (lastCall'.post # "none")
               <=> (ShouldTriggerCallback(TurnAfter) /\ settings.GUVI_CALLBACK_ENABLED)
        /\ TurnAfter.callback_sent = (lastCall'.post = "ok")]_vars

\* a POST was acknowledged again for an id whose earlier session, terminated
\* and reported, had been removed by a sweep
C37_Witness ==
    /\ lastCall.op = "engage"
    /\ probe.fn = "reuse"
    /\ probe.result.terminated
    /\ probe.result.callback_sent
    /\ lastCall.post = "ok"
    /\ lastCall.turn_number = 1
    /\ sessions[lastCall.session_id].callback_sent

(***************************************************************************)
(* The conversion of conversationHistory into seed turns (ConvertSpec).    *)
(***************************************************************************)
\* the message at i + 1 is a message of the agent
DirectReply(msgs, i) ==
    IF i < Len(msgs) /\ msgs[i + 1].sender = "user" THEN i + 1 ELSE 0

\* the first message after i from the scammer or the agent is one of the agent
NextReply(msgs, i) ==
    LET later == {j \in (i + 1)..Len(msgs) : msgs[j].sender \in {"scammer", "user"}}
    IN  IF later = {} THEN 0
        ELSE IF msgs[CHOOSE j \in later : \A k \in later : j <= k].sender = "user"
        THEN CHOOSE j \in later : \A k \in later : j <= k
        ELSE 0

\* the turns of the scammer messages of msgs that have a reply, with it, in
\* the order of the messages; reply[i] is the index of the reply to message i,
\* 0 if it has none
PairedTurns(msgs, reply) ==
    LET F[i \in 0..Len(msgs)] ==
            IF i = 0 THEN <<>>
            ELSE IF msgs[i].sender = "scammer" /\ reply[i] # 0
                 THEN Append(F[i - 1], Turn(msgs[i].text, msgs[reply[i]].text))
                 ELSE F[i - 1]
    IN  F[Len(msgs)]

\* every turn has both sides
BothSides(turns) ==
    \A i \in DOMAIN turns : turns[i].user # <<>> /\ turns[i].assistant # <<>>

\* C38 as stated: the turns passed to engage are, in the order of the
\* messages, each scammer message paired with the agent message that directly
\* follows it in the list; every turn has both sides non-empty, and all other
\* messages are dropped.
C38_TurnsPairDirectReplies ==
    probe.done =>
        /\ BothSides(probe.result)
        /\ probe.result
               = PairedTurns(probe.arg,
                             [i \in DOMAIN probe.arg |-> DirectReply(probe.arg, i)])

\* C38, amended: each scammer message is paired with the agent message that
\* follows it with no scammer or agent message in between, messages of any
\* other sender being skipped.
C38_TurnsPairNextReplies ==
    probe.done =>
        /\ BothSides(probe.result)
        /\ probe.result
               = PairedTurns(probe.arg,
                             [i \in DOMAIN probe.arg |-> NextReply(probe.arg, i)])

\* a list of two scammer messages with different texts, each directly
\* followed by its reply, was converted into the two turns in the order of the
\* messages
C38_Witness ==
    /\ probe.done
    /\ Len(probe.arg) = 4
    /\ probe.arg[1].sender = "scammer"
    /\ probe.arg[2].sender = "user"
    /\ probe.arg[3].sender = "scammer"
    /\ probe.arg[4].sender = "user"
    /\ probe.arg[1].text # probe.arg[3].text
    /\ probe.result = <<Turn(probe.arg[1].text, probe.arg[2].text),
                        Turn(probe.arg[3].text, probe.arg[4].text)>>
====
